---- MODULE Spec2Model ----
(***************************************************************************)
(* A model of the retrieval-and-assessment pipeline of src/grant_rag.py:   *)
(* sanitize_name, the text chunker, ProjectRAG (ingestion, cached query    *)
(* answering, eligibility / selection checks, recommendation parsing) and  *)
(* GrantAssessmentSystem (multi-project chat).                             *)
(*                                                                         *)
(* Short strings (names, answers, language-model output) are sequences of  *)
(* one-character strings.  Document texts are run-length encoded: a text   *)
(* is a sequence of runs [c |-> character, n |-> repetitions], adjacent    *)
(* runs holding different characters, so that CHUNK_SIZE keeps its value.  *)
(***************************************************************************)
EXTENDS Integers, Sequences, FiniteSets, TLC

VARIABLES
    fs,        \* the project source: file -> [mtime, body]
    rag,       \* project name -> the ProjectRAG object's fields
    now,       \* the wall clock read by datetime.now()
    last,      \* what the last operation was given, did and returned
    pin,       \* pure-function specifications: the input drawn
    pout       \* pure-function specifications: the function's result

vars == <<fs, rag, now, last, pin, pout>>

(***************************************************************************)
(* Program constants.                                                      *)
(***************************************************************************)
CHUNK_SIZE == 1000
CHUNK_OVERLAP == 200

(***************************************************************************)
(* Strings: sequences of one-character strings.                            *)
(***************************************************************************)
Whitespace == {" ", "\n", "\t"}

UpperSeq == <<"A", "B", "C", "D", "E", "F", "G", "H", "I", "J", "K", "L", "M",
              "N", "O", "P", "Q", "R", "S", "T", "U", "V", "W", "X", "Y", "Z">>

LowerSeq == <<"a", "b", "c", "d", "e", "f", "g", "h", "i", "j", "k", "l", "m",
              "n", "o", "p", "q", "r", "s", "t", "u", "v", "w", "x", "y", "z">>

Digits == {"0", "1", "2", "3", "4", "5", "6", "7", "8", "9"}

\* [a-zA-Z0-9]
AlNum == {UpperSeq[i] : i \in 1..Len(UpperSeq)}
         \cup {LowerSeq[i] : i \in 1..Len(LowerSeq)} \cup Digits

\* str.lower() on one character
LowerChar(c) ==
    IF \E i \in 1..Len(UpperSeq) : UpperSeq[i] = c
    THEN LowerSeq[CHOOSE i \in 1..Len(UpperSeq) : UpperSeq[i] = c]
    ELSE c

\* str.lower()
Lower(s) == [i \in 1..Len(s) |-> LowerChar(s[i])]

\* python s[a:b] for 0 <= a, 0 <= b
Slice(s, a, b) ==
    LET hi == IF b < Len(s) THEN b ELSE Len(s)
    IN  IF a >= hi THEN <<>> ELSE SubSeq(s, a + 1, hi)

\* str.startswith(p)
StartsWith(s, p) == Len(p) <= Len(s) /\ SubSeq(s, 1, Len(p)) = p

RECURSIVE LStrip(_)
\* str.lstrip()
LStrip(s) ==
    IF s # <<>> /\ s[1] \in Whitespace THEN LStrip(Tail(s)) ELSE s

RECURSIVE RStrip(_)
\* str.rstrip()
RStrip(s) ==
    IF s # <<>> /\ s[Len(s)] \in Whitespace
    THEN RStrip(SubSeq(s, 1, Len(s) - 1)) ELSE s

\* str.strip()
Strip(s) == RStrip(LStrip(s))

RECURSIVE RemoveAll(_, _)
\* str.replace(p, ""): every non-overlapping occurrence of p, left to right
RemoveAll(s, p) ==
    IF s = <<>> THEN <<>>
    ELSE IF StartsWith(s, p) THEN RemoveAll(Slice(s, Len(p), Len(s)), p)
    ELSE <<s[1]>> \o RemoveAll(Tail(s), p)

RECURSIVE SplitLines(_)
\* str.split('\n'): always at least one element
SplitLines(s) ==
    IF \A i \in 1..Len(s) : s[i] # "\n" THEN <<s>>
    ELSE LET k == CHOOSE i \in 1..Len(s) :
                      s[i] = "\n" /\ \A j \in 1..(i - 1) : s[j] # "\n"
         IN  <<SubSeq(s, 1, k - 1)>> \o SplitLines(SubSeq(s, k + 1, Len(s)))

RECURSIVE JoinLines(_)
\* '\n'.join(lines)
JoinLines(ls) ==
    IF ls = <<>> THEN <<>>
    ELSE IF Len(ls) = 1 THEN ls[1]
    ELSE ls[1] \o <<"\n">> \o JoinLines(Tail(ls))

(***************************************************************************)
(* Document texts: run-length encoded strings.                             *)
(***************************************************************************)
Run(c, n) == IF n <= 0 THEN <<>> ELSE <<[c |-> c, n |-> n]>>

\* string concatenation; the result is again normalised
TextCat(t, u) ==
    IF t = <<>> THEN u
    ELSE IF u = <<>> THEN t
    ELSE IF t[Len(t)].c = u[1].c
         THEN SubSeq(t, 1, Len(t) - 1)
              \o <<[c |-> u[1].c, n |-> t[Len(t)].n + u[1].n]>> \o Tail(u)
         ELSE t \o u

RECURSIVE ToText(_)
\* the run-length encoding of a short string
ToText(s) == IF s = <<>> THEN <<>> ELSE TextCat(Run(s[1], 1), ToText(Tail(s)))

RECURSIVE TextLen(_)
\* len(text)
TextLen(t) == IF t = <<>> THEN 0 ELSE t[1].n + TextLen(Tail(t))

RECURSIVE TextDrop(_, _)
\* text[k:]
TextDrop(t, k) ==
    IF k <= 0 \/ t = <<>> THEN t
    ELSE IF t[1].n <= k THEN TextDrop(Tail(t), k - t[1].n)
    ELSE <<[c |-> t[1].c, n |-> t[1].n - k]>> \o Tail(t)

RECURSIVE TextTake(_, _)
\* text[:k]
TextTake(t, k) ==
    IF k <= 0 \/ t = <<>> THEN <<>>
    ELSE IF t[1].n <= k THEN <<t[1]>> \o TextTake(Tail(t), k - t[1].n)
    ELSE <<[c |-> t[1].c, n |-> k]>>

\* text[a:b]
TextSlice(t, a, b) == TextTake(TextDrop(t, a), b - a)

\* not text.strip(): the text is empty or holds whitespace only
TextBlank(t) == \A i \in 1..Len(t) : t[i].c \in Whitespace

(***************************************************************************)
(* ProjectRAG.preprocess_text: fixed-size windows advancing by             *)
(* CHUNK_SIZE - CHUNK_OVERLAP; windows that trim to nothing are dropped.   *)
(***************************************************************************)
\* range(0, n, step), as a sequence
Range(n, step) == [k \in 1..((n + step - 1) \div step) |-> (k - 1) * step]

preprocess_text(text) ==
    IF TextBlank(text) THEN <<>>
    ELSE LET starts  == Range(TextLen(text), CHUNK_SIZE - CHUNK_OVERLAP)
             windows == [k \in 1..Len(starts) |->
                            TextSlice(text, starts[k], starts[k] + CHUNK_SIZE)]
         IN  SelectSeq(windows, LAMBDA w : ~TextBlank(w))

(***************************************************************************)
(* sanitize_name (a ChromaDB collection name).                             *)
(***************************************************************************)
RECURSIVE SquashUnderscores(_)
\* re.sub(r'_+', '_', s)
SquashUnderscores(s) ==
    IF Len(s) < 2 THEN s
    ELSE IF s[1] = "_" /\ s[2] = "_" THEN SquashUnderscores(Tail(s))
    ELSE <<s[1]>> \o SquashUnderscores(Tail(s))

RECURSIVE DropLeadingNonAlNum(_)
\* re.sub(r'^[^a-zA-Z0-9]+', '', s)
DropLeadingNonAlNum(s) ==
    IF s # <<>> /\ s[1] \notin AlNum THEN DropLeadingNonAlNum(Tail(s)) ELSE s

RECURSIVE DropTrailingNonAlNum(_)
\* re.sub(r'[^a-zA-Z0-9]+$', '', s)
DropTrailingNonAlNum(s) ==
    IF s # <<>> /\ s[Len(s)] \notin AlNum
    THEN DropTrailingNonAlNum(SubSeq(s, 1, Len(s) - 1)) ELSE s

sanitize_name(name) ==
    LET s1 == [i \in 1..Len(name) |->
                  IF name[i] \in AlNum \cup {"-"} THEN name[i] ELSE "_"]
        s2 == SquashUnderscores(s1)
        s3 == DropTrailingNonAlNum(DropLeadingNonAlNum(s2))
        s4 == IF Len(s3) < 3
              THEN s3 \o <<"_", "c", "o", "l", "l", "e", "c", "t", "i", "o", "n">>
              ELSE s3
    IN  IF Len(s4) > 63 THEN DropTrailingNonAlNum(SubSeq(s4, 1, 63)) ELSE s4

(***************************************************************************)
(* Paths are sequences of components; a component is a string.             *)
(***************************************************************************)
\* os.path.basename
basename(path) == IF path = <<>> THEN <<>> ELSE path[Len(path)]

\* os.path.dirname
dirname(path) == IF path = <<>> THEN <<>> ELSE SubSeq(path, 1, Len(path) - 1)

\* os.path.relpath(path, start) for a path under start
relpath(path, start) == SubSeq(path, Len(start) + 1, Len(path))

\* os.path.splitext(name)[1].lower(): from the last dot that follows a
\* character which is not a dot
splitext_lower(name) ==
    LET dots == {i \in 2..Len(name) :
                    name[i] = "." /\ \E j \in 1..(i - 1) : name[j] # "."}
    IN  IF dots = {} THEN <<>>
        ELSE LET k == CHOOSE i \in dots : \A j \in dots : j <= i
             IN  Lower(SubSeq(name, k, Len(name)))

\* str(i) for a chunk index
IntStr(i) ==
    LET d(k) == CASE k = 0 -> "0" [] k = 1 -> "1" [] k = 2 -> "2" [] k = 3 -> "3"
                  [] k = 4 -> "4" [] k = 5 -> "5" [] k = 6 -> "6" [] k = 7 -> "7"
                  [] k = 8 -> "8" [] OTHER -> "9"
    IN  IF i < 10 THEN <<d(i)>> ELSE <<d((i \div 10) % 10), d(i % 10)>>

EXT_PDF == <<".", "p", "d", "f">>
EXT_DOCX == <<".", "d", "o", "c", "x">>
EXT_DOC == <<".", "d", "o", "c">>
EXT_XLSX == <<".", "x", "l", "s", "x">>
EXT_XLS == <<".", "x", "l", "s">>
EXT_TXT == <<".", "t", "x", "t">>

SupportedExts == {EXT_PDF, EXT_DOCX, EXT_DOC, EXT_XLSX, EXT_XLS, EXT_TXT}

(***************************************************************************)
(* The project source.  A file is [dir |-> components below the project    *)
(* root, name |-> file name]; fs maps it to [mtime, body], and a body is   *)
(* [kind |-> "text" or "corrupt", text |-> what a parser reads from it].   *)
(***************************************************************************)
PROJECTS_DIR == << <<"p">> >>

\* os.path.join(self.projects_dir, item)
ProjectPath(project_name) == PROJECTS_DIR \o <<project_name>>

\* os.path.join(root, file) during os.walk(self.project_path)
FilePath(project_name, file) == ProjectPath(project_name) \o file.dir \o <<file.name>>

LIT_FILE == <<"F", "i", "l", "e", ":", " ">>
LIT_LOCATION == <<"\n", "L", "o", "c", "a", "t", "i", "o", "n", ":", " ">>

\* f"File: {file_name}\nLocation: {parent_folder}\n\n{document_text}"
with_header(file_name, parent_folder, document_text) ==
    TextCat(ToText(LIT_FILE \o file_name \o LIT_LOCATION \o parent_folder
                   \o <<"\n", "\n">>),
            document_text)

\* extract_text_from_pdf / extract_text_from_docx: a parser failure is caught
\* and gives the empty text
extract_text_caught(body) == IF body.kind = "corrupt" THEN <<>> ELSE body.text

\* extract_data_from_excel: file and folder lines, then the sheets; a parser
\* failure is caught and gives the empty text
extract_data_from_excel(file_name, parent_folder, body) ==
    IF body.kind = "corrupt" THEN <<>>
    ELSE TextCat(ToText(LIT_FILE \o file_name \o LIT_LOCATION \o parent_folder),
                 body.text)

(***************************************************************************)
(* ProjectRAG.  The object's fields:                                       *)
(*   collection          chunk id -> [document, metadata]                  *)
(*   ingestion_metadata  file path -> modification time                    *)
(*   stats               documents_processed, chunks_stored, last_update   *)
(*   cache               query hash -> retrieved chunks                    *)
(*   response_cache      query hash -> result of generate_response         *)
(***************************************************************************)
NoFn == [x \in {} |-> x]

NewProjectRAG(project_name) ==
    [ project_name       |-> project_name,
      project_path       |-> ProjectPath(project_name),
      collection         |-> NoFn,
      ingestion_metadata |-> NoFn,
      stats              |-> [documents_processed |-> 0, chunks_stored |-> 0,
                              last_update |-> 0],
      cache              |-> NoFn,
      response_cache     |-> NoFn ]

\* The ChromaDB collection of a unit lives at ./chromadb_storage/<collection_name>
\* under the name collection_name = sanitize_name(project_name): what the unit of
\* project p has written is what every unit of the same collection name finds.
publish(projects, p) ==
    [q \in DOMAIN projects |->
        IF sanitize_name(q) = sanitize_name(p)
        THEN [projects[q] EXCEPT !.collection = projects[p].collection]
        ELSE projects[q]]

\* f"{sanitize_name(file_name)}_{i}"
ChunkId(file_name, i) == sanitize_name(file_name) \o <<"_">> \o IntStr(i)

RECURSIVE add_chunks(_, _, _, _, _, _)
\* the loop over enumerate(chunks): delete the id, then add the chunk; addFail = k
\* is the Vector Index refusing the k-th insertion
add_chunks(collection, chunks, i, file_name, metadata, addFail) ==
    IF i >= Len(chunks) THEN [raised |-> FALSE, collection |-> collection]
    ELSE LET chunk_id == ChunkId(file_name, i)
             chunk_metadata == [ source          |-> metadata.source,
                                 file_name       |-> metadata.file_name,
                                 parent_folder   |-> metadata.parent_folder,
                                 relative_path   |-> metadata.relative_path,
                                 file_type       |-> metadata.file_type,
                                 timestamp       |-> metadata.timestamp,
                                 chunk_index     |-> i,
                                 total_chunks    |-> Len(chunks) ]
             deleted == [k \in (DOMAIN collection) \ {chunk_id} |-> collection[k]]
         IN  IF addFail = i + 1
             THEN [raised |-> TRUE, collection |-> deleted]
             ELSE add_chunks(
                     (chunk_id :> [document |-> chunks[i + 1],
                                   metadata |-> chunk_metadata]) @@ deleted,
                     chunks, i + 1, file_name, metadata, addFail)

\* ingest_document after the modification-time test: extract, chunk, write the
\* chunks, commit.  ret is the returned bool, log the message printed.  Every
\* statement is inside try/except Exception, so nothing is raised.
ingest_changed(self, file, st, t, addFail) ==
    LET file_path     == self.project_path \o file.dir \o <<file.name>>
        mod_time      == st.mtime
        file_name     == basename(file_path)
        parent_folder == basename(dirname(file_path))
        relative_path == relpath(file_path, self.project_path)
        ext           == splitext_lower(file_path[Len(file_path)])
        metadata      == [ source        |-> file_path,
                           file_name     |-> file_name,
                           parent_folder |-> parent_folder,
                           relative_path |-> relative_path,
                           file_type     |-> RemoveAll(ext, <<".">>),
                           timestamp     |-> t ]
        failed        == [ret |-> FALSE, log |-> "error", self |-> self]
    IN  IF ext \notin SupportedExts
        THEN [ret |-> FALSE, log |-> "unsupported", self |-> self]
        ELSE IF ext = EXT_TXT /\ st.body.kind = "corrupt"
        THEN failed    \* f.read() raises
        ELSE
        LET document_text ==
                IF ext \in {EXT_XLSX, EXT_XLS}
                THEN extract_data_from_excel(file_name, parent_folder, st.body)
                ELSE IF ext = EXT_TXT
                THEN with_header(file_name, parent_folder, st.body.text)
                ELSE with_header(file_name, parent_folder,
                                 extract_text_caught(st.body))
            chunks == preprocess_text(document_text)
            added  == add_chunks(self.collection, chunks, 0, file_name, metadata,
                                 addFail)
        IN  IF TextBlank(document_text)
            THEN [ret |-> FALSE, log |-> "no_content", self |-> self]
            ELSE IF chunks = <<>>
            THEN [ret |-> FALSE, log |-> "no_chunks", self |-> self]
            ELSE IF added.raised
            THEN [failed EXCEPT !.self.collection = added.collection]
            ELSE [ ret  |-> TRUE,
                   log  |-> "ingested",
                   self |-> [self EXCEPT
                       !.collection = added.collection,
                       !.ingestion_metadata =
                           (file_path :> mod_time) @@ self.ingestion_metadata,
                       !.stats = [documents_processed |-> @.documents_processed + 1,
                                  chunks_stored |-> @.chunks_stored + Len(chunks),
                                  last_update |-> t]] ]

\* ingest_document skipping a file only when the record is newer than the file
ingest_document_strict(self, file, st, t, addFail) ==
    LET file_path == self.project_path \o file.dir \o <<file.name>>
    IN  IF file_path \in DOMAIN self.ingestion_metadata
           /\ self.ingestion_metadata[file_path] > st.mtime
        THEN [ret |-> FALSE, log |-> "unchanged", self |-> self]
        ELSE ingest_changed(self, file, st, t, addFail)

\* ingest_document(file_path) at time t; st is the file's [mtime, body]
ingest_document(self, file, st, t, addFail) ==
    LET file_path == self.project_path \o file.dir \o <<file.name>>
        mod_time  == st.mtime
    IN  IF file_path \in DOMAIN self.ingestion_metadata
           /\ self.ingestion_metadata[file_path] >= mod_time
        THEN [ret |-> FALSE, log |-> "unchanged", self |-> self]
        ELSE ingest_changed(self, file, st, t, addFail)

\* lines 344-355: the file goes to processed_files when ingest_document returned
\* True and to skipped_files otherwise
record_outcome(results, entry, r) ==
    [ self    |-> r.self,
      results |-> IF r.ret
                  THEN [results EXCEPT !.processed_files = Append(@, entry)]
                  ELSE [results EXCEPT !.skipped_files = Append(@, entry)] ]

\* one file of the os.walk loop of ingest_directory
ingest_step(acc, file, st, t, addFail) ==
    IF splitext_lower(file.name) \notin SupportedExts
    THEN acc
    ELSE record_outcome(acc.results,
             [ file      |-> relpath(acc.self.project_path \o file.dir \o <<file.name>>,
                                     acc.self.project_path),
               full_path |-> acc.self.project_path \o file.dir \o <<file.name>> ],
             ingest_document(acc.self, file, st, t, addFail))

RECURSIVE ingest_loop(_, _, _, _, _)
\* the os.walk loop of ingest_directory, over the files in walk order
ingest_loop(acc, files, fsmap, t, addFailOf) ==
    IF files = <<>> THEN acc
    ELSE ingest_loop(ingest_step(acc, Head(files), fsmap[Head(files)], t,
                                 addFailOf[Head(files)]),
                     Tail(files), fsmap, t, addFailOf)

\* ingest_directory: error_files is appended to only in the except branch around
\* the call of ingest_document, which returns False instead of raising
ingest_directory(self, files, fsmap, t, addFailOf) ==
    LET done == ingest_loop(
                    [ self    |-> self,
                      results |-> [processed_files |-> <<>>, skipped_files |-> <<>>,
                                   error_files |-> <<>>] ],
                    files, fsmap, t, addFailOf)
    IN  [ value |-> [ processed_files |-> done.results.processed_files,
                      skipped_files   |-> done.results.skipped_files,
                      error_files     |-> done.results.error_files,
                      total_processed |-> Len(done.results.processed_files),
                      total_skipped   |-> Len(done.results.skipped_files),
                      total_errors    |-> Len(done.results.error_files) ],
          self  |-> done.self ]

(***************************************************************************)
(* Retrieval and answer generation.                                        *)
(***************************************************************************)
\* hashlib.md5(query.encode()).hexdigest(): one key per query string
md5(query) == <<"md5">> \o query

Q_ASC == <<"q", "1">>
Q_DESC == <<"q", "2">>

\* The embedding distance of a stored chunk to the query: opaque to the program,
\* a fixed function of the query and the chunk.
Distance(query, id, chunk) ==
    LET key == chunk.metadata.chunk_index * 100 + Len(id)
    IN  IF query = Q_DESC THEN 10000 - key ELSE key

RECURSIVE nearest(_, _, _, _)
\* the ids of the n nearest chunks, best first
nearest(collection, ids, query, n) ==
    IF n <= 0 \/ ids = {} THEN <<>>
    ELSE LET best == CHOOSE i \in ids : \A j \in ids :
                         Distance(query, i, collection[i])
                             <= Distance(query, j, collection[j])
         IN  <<best>> \o nearest(collection, ids \ {best}, query, n - 1)

\* query_collection(query, n_results); search is what the Vector Index does when
\* it is asked: "ok", "fail" (it raises) or "no_metadatas" (its answer carries no
\* metadatas).  searches counts the Vector Index searches issued.
query_collection(self, query, n_results, search) ==
    LET query_hash == md5(query)
        cached     == IF query_hash \in DOMAIN self.cache
                      THEN self.cache[query_hash] ELSE <<>>
        ids        == nearest(self.collection, DOMAIN self.collection, query,
                              n_results)
        retrieved  == [i \in 1..Len(ids) |->
                         [ content  |-> self.collection[ids[i]].document,
                           metadata |-> IF search = "no_metadatas" THEN NoFn
                                        ELSE self.collection[ids[i]].metadata,
                           relevance_score |->
                               Distance(query, ids[i], self.collection[ids[i]]) ]]
    IN  IF cached # <<>>
        THEN [value |-> cached, self |-> self, searches |-> 0]
        ELSE IF search = "fail"
        THEN [value |-> <<>>, self |-> self, searches |-> 1]
        ELSE IF ids = <<>>
        THEN [value |-> <<>>, self |-> self, searches |-> 1]
        ELSE [ value    |-> retrieved,
               self     |-> [self EXCEPT !.cache = (query_hash :> retrieved) @@ @],
               searches |-> 1 ]

RECURSIVE collect_sources(_, _)
\* the basenames of the chunks' sources, first seen first, each once
collect_sources(context_chunks, sources) ==
    IF context_chunks = <<>> THEN sources
    ELSE LET md == Head(context_chunks).metadata
             source_file == basename(md.source)
         IN  IF "source" \in DOMAIN md
                /\ \A k \in 1..Len(sources) : sources[k] # source_file
             THEN collect_sources(Tail(context_chunks), Append(sources, source_file))
             ELSE collect_sources(Tail(context_chunks), sources)

ERR_GENERATING == <<"E", "r", "r", "o", "r", " ", "g", "e", "n", "e", "r", "a",
                    "t", "i", "n", "g", " ", "r", "e", "s", "p", "o", "n", "s", "e",
                    ":", " ", "e">>

\* generate_response that stores the error result in the Response Cache as well
generate_response_poisoning(self, query, context_chunks, llm, t) ==
    LET query_hash == md5(query)
        result == [ answer       |-> llm.content,
                    sources      |-> collect_sources(context_chunks, <<>>),
                    timestamp    |-> t,
                    context_used |-> Len(context_chunks),
                    chunks       |-> [i \in 1..Len(context_chunks) |->
                                         context_chunks[i].metadata.chunk_index] ]
    IN  IF query_hash \in DOMAIN self.response_cache
        THEN [ raised |-> FALSE, value |-> self.response_cache[query_hash],
               self |-> self, llm_calls |-> 0 ]
        ELSE IF \E i \in 1..Len(context_chunks) :
                    "chunk_index" \notin DOMAIN context_chunks[i].metadata
        THEN \* chunk["metadata"]["chunk_index"], before the try: KeyError
             [ raised |-> TRUE, value |-> [exception |-> "KeyError"], self |-> self,
               llm_calls |-> 0 ]
        ELSE IF ~llm.ok
        THEN [ raised |-> FALSE,
               value  |-> [ answer |-> ERR_GENERATING, sources |-> <<>>,
                            timestamp |-> t, error |-> <<"e">> ],
               self |-> [self EXCEPT !.response_cache =
                            (query_hash :> [ answer |-> ERR_GENERATING,
                                             sources |-> <<>>, timestamp |-> t,
                                             error |-> <<"e">> ]) @@ @],
               llm_calls |-> 1 ]
        ELSE [ raised |-> FALSE, value |-> result,
               self |-> [self EXCEPT !.response_cache = (query_hash :> result) @@ @],
               llm_calls |-> 1 ]

\* generate_response(query, context_chunks) at time t; llm is what the language
\* model does when it is called: [ok |-> FALSE] (the call raises) or
\* [ok |-> TRUE, content |-> text].  llm_calls counts the calls issued.
generate_response(self, query, context_chunks, llm, t) ==
    LET query_hash == md5(query)
        result == [ answer       |-> llm.content,
                    sources      |-> collect_sources(context_chunks, <<>>),
                    timestamp    |-> t,
                    context_used |-> Len(context_chunks),
                    chunks       |-> [i \in 1..Len(context_chunks) |->
                                         context_chunks[i].metadata.chunk_index] ]
    IN  IF query_hash \in DOMAIN self.response_cache
        THEN [ raised |-> FALSE, value |-> self.response_cache[query_hash],
               self |-> self, llm_calls |-> 0 ]
        ELSE IF \E i \in 1..Len(context_chunks) :
                    "chunk_index" \notin DOMAIN context_chunks[i].metadata
        THEN \* chunk["metadata"]["chunk_index"], before the try: KeyError
             [ raised |-> TRUE, value |-> [exception |-> "KeyError"], self |-> self,
               llm_calls |-> 0 ]
        ELSE IF ~llm.ok
        THEN [ raised |-> FALSE,
               value  |-> [ answer |-> ERR_GENERATING, sources |-> <<>>,
                            timestamp |-> t, error |-> <<"e">> ],
               self |-> self, llm_calls |-> 1 ]
        ELSE [ raised |-> FALSE, value |-> result,
               self |-> [self EXCEPT !.response_cache = (query_hash :> result) @@ @],
               llm_calls |-> 1 ]

\* ask(query): env is [search, llm], what the two services do during this call
ask(self, query, env, t) ==
    LET retrieved == query_collection(self, query, 5, env.search)
        response  == generate_response(retrieved.self, query, retrieved.value,
                                       env.llm, t)
    IN  [ raised    |-> response.raised,
          value     |-> response.value,
          self      |-> response.self,
          searches  |-> retrieved.searches,
          llm_calls |-> response.llm_calls ]

(***************************************************************************)
(* Eligibility and selection checks.  criteria is the mapping in insertion *)
(* order, a sequence of [name, question]; envs[k] is what the services do  *)
(* during the k-th call of ask.                                            *)
(***************************************************************************)
\* the question put to ask for one criterion (the same text in both checks)
eligibility_question(question) ==
    <<"Based on the project documents, ">> \o question
    \o <<" Answer with 'Yes' or 'No' first, then provide supporting evidence.">>

\* the follow-up question of check_selected_projects for a failed criterion
action_prompt(question) ==
    <<"The project does not meet the following criterion: '">> \o question
    \o <<"'. What specific actions should be taken to meet this requirement?">>

\* answer.lower().startswith("yes")
starts_with_yes(answer) == StartsWith(Lower(answer), <<"y", "e", "s">>)

\* response.get("sources", [])
get_sources(response) ==
    IF "sources" \in DOMAIN response THEN response.sources ELSE <<>>

RECURSIVE join_names(_)
\* ', '.join(names)
join_names(names) ==
    IF names = <<>> THEN <<>>
    ELSE IF Len(names) = 1 THEN names[1]
    ELSE names[1] \o <<", ">> \o join_names(Tail(names))

\* [c["name"] for c in results["criteria"] if not c["meets_criterion"]]
failed_criteria(criteria) ==
    LET failed == SelectSeq(criteria, LAMBDA c : ~c.meets_criterion)
    IN  [i \in 1..Len(failed) |-> failed[i].name]

\* the summary of a check; kind is "eligibility" or "selection"
check_summary(project_name, ok, criteria, kind) ==
    IF ok
    THEN <<"Project '">> \o project_name \o <<"' meets all ", kind, " criteria.">>
    ELSE <<"Project '">> \o project_name
         \o <<"' does not meet the following criteria: ">>
         \o join_names(failed_criteria(criteria)) \o <<".">>

\* the loop's state before the first criterion
check_start(self) ==
    [ raised |-> FALSE, exception |-> NoFn, self |-> self, ok |-> TRUE,
      criteria |-> <<>>, asked |-> 0, llm_calls |-> 0 ]

\* eligibility_record leaving the loop's state as it is once a criterion failed
eligibility_record_short(acc, criterion, r) ==
    IF ~acc.ok THEN acc
    ELSE IF r.raised
    THEN [acc EXCEPT !.raised = TRUE, !.exception = r.value, !.self = r.self,
                     !.asked = @ + 1, !.llm_calls = @ + r.llm_calls]
    ELSE [acc EXCEPT
            !.self = r.self,
            !.ok = IF ~starts_with_yes(Strip(r.value.answer)) THEN FALSE ELSE @,
            !.criteria = Append(@,
                [ name            |-> criterion.name,
                  question        |-> criterion.question,
                  answer          |-> Strip(r.value.answer),
                  meets_criterion |-> starts_with_yes(Strip(r.value.answer)),
                  sources         |-> get_sources(r.value) ]),
            !.asked = @ + 1,
            !.llm_calls = @ + r.llm_calls]

\* check_eligibility, one criterion, once its ask has returned r
eligibility_record(acc, criterion, r) ==
    IF r.raised
    THEN [acc EXCEPT !.raised = TRUE, !.exception = r.value, !.self = r.self,
                     !.asked = @ + 1, !.llm_calls = @ + r.llm_calls]
    ELSE [acc EXCEPT
            !.self = r.self,
            !.ok = IF ~starts_with_yes(Strip(r.value.answer)) THEN FALSE ELSE @,
            !.criteria = Append(@,
                [ name            |-> criterion.name,
                  question        |-> criterion.question,
                  answer          |-> Strip(r.value.answer),
                  meets_criterion |-> starts_with_yes(Strip(r.value.answer)),
                  sources         |-> get_sources(r.value) ]),
            !.asked = @ + 1,
            !.llm_calls = @ + r.llm_calls]

RECURSIVE eligibility_loop(_, _, _, _)
\* check_eligibility, the loop over criteria.items()
eligibility_loop(acc, criteria, envs, t) ==
    IF acc.raised \/ criteria = <<>> THEN acc
    ELSE eligibility_loop(
             eligibility_record(acc, Head(criteria),
                 ask(acc.self, eligibility_question(Head(criteria).question),
                     envs[acc.asked + 1], t)),
             Tail(criteria), envs, t)

\* check_result with an error field whenever the flag is false
check_result_reporting(acc, project_name, flag, kind, t) ==
    [ raised    |-> acc.raised,
      value     |-> IF acc.raised THEN acc.exception
                    ELSE (flag :> acc.ok)
                         @@ [ project_name |-> project_name,
                              timestamp    |-> t,
                              criteria     |-> acc.criteria,
                              summary      |-> check_summary(project_name, acc.ok,
                                                             acc.criteria, kind) ]
                         @@ (IF acc.ok THEN NoFn ELSE [error |-> <<"e">>]),
      self      |-> acc.self,
      asked     |-> acc.asked,
      llm_calls |-> acc.llm_calls ]

\* the returned dictionary, or the exception that left the loop
check_result(acc, project_name, flag, kind, t) ==
    [ raised    |-> acc.raised,
      value     |-> IF acc.raised THEN acc.exception
                    ELSE (flag :> acc.ok)
                         @@ [ project_name |-> project_name,
                              timestamp    |-> t,
                              criteria     |-> acc.criteria,
                              summary      |-> check_summary(project_name, acc.ok,
                                                             acc.criteria, kind) ],
      self      |-> acc.self,
      asked     |-> acc.asked,
      llm_calls |-> acc.llm_calls ]

\* check_eligibility with eligible taken from the criterion examined last
check_eligibility_last(self, criteria, envs, t) ==
    LET acc == eligibility_loop(check_start(self), criteria, envs, t)
    IN  check_result(
            [acc EXCEPT !.ok = acc.criteria = <<>>
                               \/ acc.criteria[Len(acc.criteria)].meets_criterion],
            self.project_name, "eligible", "eligibility", t)

check_eligibility(self, criteria, envs, t) ==
    check_result(eligibility_loop(check_start(self), criteria, envs, t),
                 self.project_name, "eligible", "eligibility", t)

\* check_selected_projects, one criterion, once its ask has returned r and the
\* action to take is known: a is the outcome of the follow-up ask (asks = 1), or
\* stands for the literal "No action needed." (asks = 0)
selection_record(acc, criterion, r, a, asks) ==
    IF a.raised
    THEN [acc EXCEPT !.raised = TRUE, !.exception = a.value, !.self = a.self,
                     !.asked = @ + 1 + asks,
                     !.llm_calls = @ + r.llm_calls + a.llm_calls]
    ELSE [acc EXCEPT
            !.self = a.self,
            !.ok = IF ~starts_with_yes(Strip(r.value.answer)) THEN FALSE ELSE @,
            !.criteria = Append(@,
                [ name            |-> criterion.name,
                  question        |-> criterion.question,
                  answer          |-> Strip(r.value.answer),
                  meets_criterion |-> starts_with_yes(Strip(r.value.answer)),
                  sources         |-> get_sources(r.value),
                  action_needed   |-> Strip(a.value.answer) ]),
            !.asked = @ + 1 + asks,
            !.llm_calls = @ + r.llm_calls + a.llm_calls]

\* check_selected_projects, one criterion, once its ask has returned r
selection_step(acc, criterion, r, envs, t) ==
    IF r.raised
    THEN [acc EXCEPT !.raised = TRUE, !.exception = r.value, !.self = r.self,
                     !.asked = @ + 1, !.llm_calls = @ + r.llm_calls]
    ELSE IF starts_with_yes(Strip(r.value.answer))
    THEN selection_record(acc, criterion, r,
             [ raised |-> FALSE, value |-> [answer |-> <<"No action needed.">>],
               self |-> r.self, llm_calls |-> 0 ], 0)
    ELSE selection_record(acc, criterion, r,
             ask(r.self, action_prompt(criterion.question), envs[acc.asked + 2], t),
             1)

RECURSIVE selection_loop(_, _, _, _)
\* check_selected_projects, the loop over criteria.items()
selection_loop(acc, criteria, envs, t) ==
    IF acc.raised \/ criteria = <<>> THEN acc
    ELSE selection_loop(
             selection_step(acc, Head(criteria),
                 ask(acc.self, eligibility_question(Head(criteria).question),
                     envs[acc.asked + 1], t),
                 envs, t),
             Tail(criteria), envs, t)

check_selected_projects(self, criteria, envs, t) ==
    check_result(selection_loop(check_start(self), criteria, envs, t),
                 self.project_name, "selected", "selection", t)

(***************************************************************************)
(* generate_recommendation: the decision line of the language model's      *)
(* response.                                                               *)
(***************************************************************************)
DECISION_PREFIX == <<"D", "E", "C", "I", "S", "I", "O", "N", ":">>

PENDING == <<"P", "e", "n", "d", "i", "n", "g">>

\* recommendation_text.split('\n')[0].strip()
first_line(recommendation_text) == Strip(SplitLines(recommendation_text)[1])

\* the two fields read off the response text
parse_recommendation(recommendation_text) ==
    IF StartsWith(first_line(recommendation_text), DECISION_PREFIX)
    THEN [ funding_decision |->
               Strip(RemoveAll(first_line(recommendation_text), DECISION_PREFIX)),
           recommendation   |->
               Strip(JoinLines(Tail(SplitLines(recommendation_text)))) ]
    ELSE [ funding_decision |-> PENDING,
           recommendation   |-> recommendation_text ]

\* generate_recommendation(eligibility_result, detailed_report) at time t; the two
\* arguments only feed the prompt.  llm is what the language model does.
generate_recommendation(self, eligibility_result, detailed_report, llm, t) ==
    IF ~llm.ok
    THEN [ project_name   |-> self.project_name,
           timestamp      |-> t,
           error          |-> <<"e">>,
           recommendation |-> <<"Error generating recommendation.">> ]
    ELSE [ project_name     |-> self.project_name,
           timestamp        |-> t,
           funding_decision |-> parse_recommendation(llm.content).funding_decision,
           recommendation   |-> parse_recommendation(llm.content).recommendation ]

(***************************************************************************)
(* GrantAssessmentSystem: projects maps project names to their ProjectRAG. *)
(***************************************************************************)
\* ask_project(project_name, question): never raises
ask_project(projects, project_name, question, env, t) ==
    IF project_name \notin DOMAIN projects
    THEN [ value     |-> [ error     |-> <<"Project ">> \o project_name
                                         \o <<" not found">>,
                           answer    |-> <<"Error: Project ">> \o project_name
                                         \o <<" not found">>,
                           sources   |-> <<>>,
                           timestamp |-> t ],
           projects  |-> projects,
           llm_calls |-> 0 ]
    ELSE LET r == ask(projects[project_name], question, env, t)
         IN  [ value     |-> IF r.raised
                             THEN [ error     |-> <<r.value.exception>>,
                                    answer    |-> <<"Error querying project: ",
                                                    r.value.exception>>,
                                    sources   |-> <<>>,
                                    timestamp |-> t ]
                             ELSE r.value,
               projects  |-> [projects EXCEPT ![project_name] = r.self],
               llm_calls |-> r.llm_calls ]

\* chat_with_projects, one project name of the loop, once ask_project returned r
chat_record(acc, project_name, r) ==
    [ projects  |-> r.projects,
      responses |-> (project_name :> r.value) @@ acc.responses,
      asks      |-> acc.asks + 1,
      llm_calls |-> acc.llm_calls + r.llm_calls ]

RECURSIVE chat_loop(_, _, _, _, _)
\* chat_with_projects, the loop over project_names; envs[k] is what the services
\* do during the k-th ask_project
chat_loop(acc, project_names, query, envs, t) ==
    IF project_names = <<>> THEN acc
    ELSE chat_loop(
             chat_record(acc, Head(project_names),
                 ask_project(acc.projects, Head(project_names), query,
                             envs[acc.asks + 1], t)),
             Tail(project_names), query, envs, t)

ERR_COMPARING == <<"Error generating comparative analysis: ">>

\* the comparison: self.client is the synchronous OpenAI client, so create(...)
\* performs the call and returns a completion, which `await` rejects with a
\* TypeError; that, like a failed call, is caught
comparison_of(llm) ==
    IF llm.ok THEN ERR_COMPARING \o <<"TypeError">> ELSE ERR_COMPARING \o <<"e">>

\* what chat_with_projects returns once its guard has let the call pass
chat_answer(acc, llm) ==
    [ raised    |-> FALSE,
      value     |-> [responses |-> acc.responses, comparison |-> comparison_of(llm)],
      projects  |-> acc.projects,
      asks      |-> acc.asks,
      llm_calls |-> acc.llm_calls + 1 ]

\* raise ValueError("At least 2 projects are required for multi-project chat")
chat_refused(projects) ==
    [ raised |-> TRUE, value |-> [exception |-> "ValueError"],
      projects |-> projects, asks |-> 0, llm_calls |-> 0 ]

\* the loop's state before the first project
chat_start(projects) ==
    [projects |-> projects, responses |-> NoFn, asks |-> 0, llm_calls |-> 0]

\* chat_with_projects whose guard tests for the empty list only
chat_with_projects_nonempty(projects, query, project_names, envs, llm, t) ==
    IF project_names = <<>>
    THEN chat_refused(projects)
    ELSE chat_answer(chat_loop(chat_start(projects), project_names, query, envs, t),
                     llm)

\* chat_with_projects(query, project_names); llm is what the language model does
\* when the comparison is requested
chat_with_projects(projects, query, project_names, envs, llm, t) ==
    IF project_names = <<>> \/ Len(project_names) < 2
    THEN chat_refused(projects)
    ELSE chat_answer(chat_loop(chat_start(projects), project_names, query, envs, t),
                     llm)

\* the fixed question generate_comparative_analysis puts to every project
SUMMARY_QUERY ==
    <<"Summarize this project's key aspects including: ",
      "1. Main objectives and goals ", "2. Target beneficiaries ",
      "3. Implementation approach ", "4. Expected outcomes and impact ",
      "5. Budget and resource requirements">>

\* generate_comparative_analysis, one project of the loop, once its ask returned r
compare_record(acc, project_name, r) ==
    [ raised    |-> r.raised,
      exception |-> IF r.raised THEN r.value ELSE acc.exception,
      projects  |-> [acc.projects EXCEPT ![project_name] = r.self],
      responses |-> IF r.raised THEN acc.responses
                    ELSE (project_name :> r.value) @@ acc.responses,
      asks      |-> acc.asks + 1,
      llm_calls |-> acc.llm_calls + r.llm_calls ]

RECURSIVE compare_loop(_, _, _, _)
\* generate_comparative_analysis, the loop over self.projects.items(); names are
\* the keys in the mapping's order, envs[k] is what the services do during the
\* k-th ask
compare_loop(acc, names, envs, t) ==
    IF acc.raised \/ names = <<>> THEN acc
    ELSE compare_loop(
             compare_record(acc, Head(names),
                 ask(acc.projects[Head(names)], SUMMARY_QUERY,
                     envs[acc.asks + 1], t)),
             Tail(names), envs, t)

\* the loop's state before the first project
compare_start(projects) ==
    [ raised |-> FALSE, exception |-> NoFn, projects |-> projects,
      responses |-> NoFn, asks |-> 0, llm_calls |-> 0 ]

\* what generate_comparative_analysis returns after the loop; llm is what the
\* language model does when the synthesis is requested
compare_answer(acc, names, llm, t) ==
    IF acc.raised
    THEN [ raised |-> FALSE, ask_raised |-> TRUE,
           value |-> [error |-> <<acc.exception.exception>>, timestamp |-> t],
           projects |-> acc.projects, asks |-> acc.asks,
           llm_calls |-> acc.llm_calls ]
    ELSE IF ~llm.ok
    THEN [ raised |-> FALSE, ask_raised |-> FALSE,
           value |-> [error |-> <<"e">>, timestamp |-> t],
           projects |-> acc.projects, asks |-> acc.asks,
           llm_calls |-> acc.llm_calls + 1 ]
    ELSE [ raised |-> FALSE, ask_raised |-> FALSE,
           value |-> [ responses         |-> acc.responses,
                       comparison        |-> llm.content,
                       timestamp         |-> t,
                       projects_compared |-> names ],
           projects |-> acc.projects, asks |-> acc.asks,
           llm_calls |-> acc.llm_calls + 1 ]

\* generate_comparative_analysis in which an exception of ask is not caught
generate_comparative_analysis_raising(projects, names, eligible_only, envs, llm, t) ==
    IF Len(names) < 2
    THEN [ raised |-> FALSE, ask_raised |-> FALSE,
           value |-> [ error |-> <<"At least two projects are required for ",
                                   "comparative analysis">>,
                       timestamp |-> t ],
           projects |-> projects, asks |-> 0, llm_calls |-> 0 ]
    ELSE [ compare_answer(compare_loop(compare_start(projects), names, envs, t),
                          names, llm, t)
           EXCEPT !.raised = @ \/ compare_loop(compare_start(projects), names,
                                               envs, t).raised ]

\* generate_comparative_analysis(eligible_only): projects is self.projects, names
\* its keys in order.  eligible_only is not read by the body.
generate_comparative_analysis(projects, names, eligible_only, envs, llm, t) ==
    IF Len(names) < 2
    THEN [ raised |-> FALSE, ask_raised |-> FALSE,
           value |-> [ error |-> <<"At least two projects are required for ",
                                   "comparative analysis">>,
                       timestamp |-> t ],
           projects |-> projects, asks |-> 0, llm_calls |-> 0 ]
    ELSE compare_answer(compare_loop(compare_start(projects), names, envs, t),
                        names, llm, t)

\* sidebar.generate_comparative: the projects among selected_projects, and with
\* eligible_only only those whose eligibility result says eligible
filtered_names(names, selected_projects, eligibility_results, eligible_only) ==
    SelectSeq(names,
        LAMBDA n : /\ n \in selected_projects
                   /\ eligible_only
                        => ( /\ n \in DOMAIN eligibility_results
                             /\ eligibility_results[n].eligible ))

\* sidebar.generate_comparative(eligible_only): the system's projects mapping is
\* replaced by the filtered one for the duration of the call, then restored
generate_comparative(projects, names, selected_projects, eligibility_results, eligible_only, envs, llm, t) ==
    generate_comparative_analysis(projects,
        filtered_names(names, selected_projects, eligibility_results,
                       eligible_only),
        eligible_only, envs, llm, t)

RECURSIVE eligibility_pass(_, _, _, _, _, _)
\* sidebar.check_eligibility(project_names, criteria): the results by project
\* name, which the session keeps as eligibility_results; envs[k] is what the
\* services do during the check of the k-th name.  An exception of a check is
\* not caught here.
eligibility_pass(projects, project_names, criteria, envs, t, results) ==
    IF project_names = <<>>
    THEN [raised |-> FALSE, projects |-> projects, results |-> results]
    ELSE IF Head(project_names) \notin DOMAIN projects
    THEN eligibility_pass(projects, Tail(project_names), criteria, Tail(envs), t,
                          results)
    ELSE IF check_eligibility(projects[Head(project_names)], criteria, Head(envs),
                              t).raised
    THEN [ raised   |-> TRUE,
           projects |-> [projects EXCEPT ![Head(project_names)] =
                            check_eligibility(@, criteria, Head(envs), t).self],
           results  |-> results ]
    ELSE eligibility_pass(
             [projects EXCEPT ![Head(project_names)] =
                 check_eligibility(@, criteria, Head(envs), t).self],
             Tail(project_names), criteria, Tail(envs), t,
             (Head(project_names) :>
                 check_eligibility(projects[Head(project_names)], criteria,
                                   Head(envs), t).value) @@ results)

RECURSIVE initialize_loop(_, _, _)
\* initialize_projects, the loop over os.listdir(self.projects_dir): items are
\* the entries, [name, isdir]; failing are the names for which ProjectRAG(...)
\* raises.  The handler around the loop re-raises, so the loop ends there.
initialize_loop(projects, items, failing) ==
    IF items = <<>> THEN [raised |-> FALSE, projects |-> projects]
    ELSE IF ~Head(items).isdir
    THEN initialize_loop(projects, Tail(items), failing)
    ELSE IF Head(items).name \in failing
    THEN [raised |-> TRUE, projects |-> projects]
    ELSE initialize_loop(
             (Head(items).name :> NewProjectRAG(Head(items).name)) @@ projects,
             Tail(items), failing)

\* initialize_projects(); exists: the projects directory is there
initialize_projects(projects, exists, items, failing) ==
    IF ~exists
    THEN [raised |-> FALSE, projects |-> projects]
    ELSE initialize_loop(projects, items, failing)

(***************************************************************************)
(* GrantAssessmentSystem.ingest_project.                                    *)
(***************************************************************************)
\* ingest_project without the reset of the statistics
ingest_project_keeping(projects, project_name, files, fsmap, t, addFailOf) ==
    IF project_name \notin DOMAIN projects
    THEN [ret |-> FALSE, projects |-> projects, results |-> NoFn]
    ELSE LET done == ingest_directory(projects[project_name], files, fsmap, t,
                                      addFailOf)
         IN  [ ret      |-> TRUE,
               projects |-> [projects EXCEPT ![project_name] =
                                [done.self EXCEPT !.stats.last_update = t]],
               results  |-> done.value ]

\* ingest_project(project_name): results is what ingest_directory returned, which
\* the method only reads
ingest_project(projects, project_name, files, fsmap, t, addFailOf) ==
    IF project_name \notin DOMAIN projects
    THEN [ret |-> FALSE, projects |-> projects, results |-> NoFn]
    ELSE LET reset == [projects[project_name] EXCEPT
                          !.stats = [documents_processed |-> 0,
                                     chunks_stored |-> 0, last_update |-> 0]]
             done  == ingest_directory(reset, files, fsmap, t, addFailOf)
         IN  [ ret      |-> TRUE,
               projects |-> [projects EXCEPT ![project_name] =
                                [done.self EXCEPT !.stats.last_update = t]],
               results  |-> done.value ]

(***************************************************************************)
(* GrantAssessmentSystem.search_projects: the chunks found in each project. *)
(***************************************************************************)
\* one project of search_projects, once its query_collection has returned r
search_record(acc, project_name, r) ==
    [ projects |-> [acc.projects EXCEPT ![project_name] = r.self],
      results  |-> IF r.value # <<>> THEN (project_name :> r.value) @@ acc.results
                   ELSE acc.results ]

RECURSIVE search_loop(_, _, _, _)
\* the loop over self.projects.items(); search[n] is what the Vector Index does
\* when project n is searched
search_loop(acc, names, query, search) ==
    IF names = <<>> THEN acc
    ELSE search_loop(
             search_record(acc, Head(names),
                 query_collection(acc.projects[Head(names)], query, 3,
                                  search[Head(names)])),
             Tail(names), query, search)

search_projects(projects, names, query, search) ==
    search_loop([projects |-> projects, results |-> NoFn], names, query, search)

(***************************************************************************)
(* Bounds and the inputs drawn.                                            *)
(***************************************************************************)
MaxMtime == 2     \* modification times are 1..MaxMtime
MaxNow == 2       \* the clock runs from 1 to MaxNow
MaxAddFail == 2   \* the Vector Index may refuse insertion number 1..MaxAddFail

P_A == <<"A">>
P_B == <<"B">>

F_A1 == [dir |-> << <<"d">> >>, name |-> <<"a", ".", "t", "x", "t">>]
F_B1 == [dir |-> << <<"d">> >>, name |-> <<"b", ".", "p", "d", "f">>]
F_A2 == [dir |-> << <<"s">> >>, name |-> <<"a", ".", "t", "x", "t">>]
F_C1 == [dir |-> <<>>, name |-> <<"c", ".", "d", "o", "c", "x">>]
F_MD == [dir |-> << <<"d">> >>, name |-> <<"n", ".", "m", "d">>]

Files == {F_A1, F_B1, F_C1, F_MD}

\* the files the environment rewrites
Writable == {F_A1}

\* the order in which os.walk lists the files
WalkOrder == <<F_C1, F_A1, F_MD, F_B1>>

B_SMALL == [kind |-> "text", text |-> Run("x", 100)]
B_BIG == [kind |-> "text", text |-> Run("x", 2500)]
B_BLANK == [kind |-> "text", text |-> Run(" ", 10)]
B_CORRUPT == [kind |-> "corrupt", text |-> <<>>]

\* what each file may hold
FileBodies(f) ==
    IF f = F_A1 THEN {B_SMALL, B_BIG, B_CORRUPT}
    ELSE IF f = F_B1 THEN {B_SMALL, B_CORRUPT}
    ELSE {B_SMALL}

\* where the Vector Index may refuse an insertion during one run: nowhere, or at
\* insertion k of file f
AddFailures ==
    {[f \in Files |-> 0]}
    \cup {[f \in Files |-> IF f = ff THEN k ELSE 0] :
              ff \in {F_A1, F_B1}, k \in 1..MaxAddFail}

Queries == {Q_ASC, Q_DESC}

A_YES == <<"Y", "e", "s", ",", " ", "o", "k">>
A_NO == <<"N", "o">>

LLM_FAIL == [ok |-> FALSE, content |-> <<>>]

LlmOutcomes == {LLM_FAIL} \cup {[ok |-> TRUE, content |-> a] : a \in {A_YES, A_NO}}

SearchOutcomes == {"ok", "fail", "no_metadatas"}

(***************************************************************************)
(* Spec: one project, its files, ingestion and ask.                        *)
(***************************************************************************)
Init ==
    /\ \E a \in FileBodies(F_A1), b \in FileBodies(F_B1) :
           fs = [f \in Files |->
                    [mtime |-> 1,
                     body  |-> IF f = F_A1 THEN a ELSE IF f = F_B1 THEN b
                               ELSE B_SMALL]]
    /\ rag = (P_A :> NewProjectRAG(P_A))
    /\ now = 1
    /\ last = [op |-> "init"]
    /\ pin = <<>>
    /\ pout = <<>>

\* the environment rewrites a file
WriteFile ==
    \E f \in Writable \cap DOMAIN fs, m \in 1..MaxMtime :
        \E b \in FileBodies(f) :
            /\ fs[f] # [mtime |-> m, body |-> b]
            /\ fs' = [fs EXCEPT ![f] = [mtime |-> m, body |-> b]]
            /\ last' = [op |-> "write_file"]
            /\ UNCHANGED <<rag, now, pin, pout>>

\* time passes
Tick ==
    /\ now < MaxNow
    /\ now' = now + 1
    /\ last' = [op |-> "tick"]
    /\ UNCHANGED <<fs, rag, pin, pout>>

IngestDocument ==
    \E p \in DOMAIN rag, f \in DOMAIN fs, addFail \in 0..MaxAddFail :
        LET r == ingest_document(rag[p], f, fs[f], now, addFail)
        IN  /\ rag' = publish([rag EXCEPT ![p] = r.self], p)
            /\ last' = [op |-> "ingest_document", project |-> p, file |-> f,
                        ret |-> r.ret, log |-> r.log]
            /\ UNCHANGED <<fs, now, pin, pout>>

IngestDirectory ==
    \E p \in DOMAIN rag, addFailOf \in AddFailures :
        LET r == ingest_directory(rag[p], WalkOrder, fs, now, addFailOf)
        IN  /\ rag' = publish([rag EXCEPT ![p] = r.self], p)
            /\ last' = [op |-> "ingest_directory", project |-> p,
                        value |-> r.value]
            /\ UNCHANGED <<fs, now, pin, pout>>

Ask ==
    \E p \in DOMAIN rag, q \in Queries, s \in SearchOutcomes, l \in LlmOutcomes :
        LET r == ask(rag[p], q, [search |-> s, llm |-> l], now)
        IN  /\ rag' = publish([rag EXCEPT ![p] = r.self], p)
            /\ last' = [op |-> "ask", project |-> p, query |-> q,
                        services_ok |-> (s # "fail" /\ l.ok),
                        search_failed |-> (r.searches = 1 /\ s = "fail"),
                        llm_failed |-> (r.llm_calls = 1 /\ ~l.ok),
                        raised |-> r.raised, value |-> r.value,
                        searches |-> r.searches, llm_calls |-> r.llm_calls]
            /\ UNCHANGED <<fs, now, pin, pout>>

Next == WriteFile \/ IngestDocument \/ IngestDirectory

Spec == Init /\ [][Next]_vars

(***************************************************************************)
(* Claims on ingestion, checked under Spec.                                *)
(***************************************************************************)
\* the chunk ids the index holds for a file
FileChunkIds(self, file_path) ==
    {id \in DOMAIN self.collection :
        self.collection[id].metadata.source = file_path}

\* the Ingestion Record shows the file as not modified
Unmodified(p, f) ==
    /\ FilePath(p, f) \in DOMAIN rag[p].ingestion_metadata
    /\ rag[p].ingestion_metadata[FilePath(p, f)] >= fs[f].mtime

\* C1: ingest_document on a file whose modification time is not greater than the
\* recorded one returns the skipped outcome and changes neither the index, nor
\* the Ingestion Record, nor the statistics (nor anything else of the project);
\* ingesting a file right after its successful ingestion skips it.
C1_SkipUnmodified ==
    [][ \A p \in DOMAIN rag, f \in DOMAIN fs :
          (last'.op = "ingest_document" /\ last'.project = p /\ last'.file = f)
          => /\ Unmodified(p, f)
                => (~last'.ret /\ last'.log = "unchanged" /\ rag' = rag)
             /\ (last.op = "ingest_document" /\ last.project = p /\ last.file = f
                 /\ last.ret)
                => (~last'.ret /\ last'.log = "unchanged" /\ rag' = rag) ]_vars

\* C1 witness: a file older than its record was skipped, with chunks indexed
C1_Witness ==
    /\ last.op = "ingest_document"
    /\ last.log = "unchanged"
    /\ rag[last.project].ingestion_metadata[FilePath(last.project, last.file)]
           > fs[last.file].mtime
    /\ FileChunkIds(rag[last.project], FilePath(last.project, last.file)) # {}

\* the chunk count of the revision the index holds for a file (0: none)
IndexedCount(self, file) ==
    LET id0 == ChunkId(file.name, 0)
    IN  IF id0 \in DOMAIN self.collection
           /\ self.collection[id0].metadata.source
                  = self.project_path \o file.dir \o <<file.name>>
        THEN self.collection[id0].metadata.total_chunks
        ELSE 0

\* C2: after ingest_document succeeds on a modified file whose chunk count
\* differs from that of the previously ingested revision, the index holds for
\* that file exactly the chunk ids of the new revision.
C2_NoStaleChunks ==
    [][ \A p \in DOMAIN rag, f \in DOMAIN fs :
          ( /\ last'.op = "ingest_document" /\ last'.project = p /\ last'.file = f
            /\ last'.ret
            /\ FilePath(p, f) \in DOMAIN rag[p].ingestion_metadata
            /\ IndexedCount(rag[p], f) # IndexedCount(rag'[p], f) )
          => FileChunkIds(rag'[p], FilePath(p, f))
                 = {ChunkId(f.name, i) : i \in 0..(IndexedCount(rag'[p], f) - 1)}
       ]_vars

\* the supported files whose extraction raises in the coming run
Throwing(p) ==
    {f \in DOMAIN fs : /\ splitext_lower(f.name) \in SupportedExts
                       /\ fs[f].body.kind = "corrupt"
                       /\ ~Unmodified(p, f)}

\* C3: an ingest_directory run in which exactly one file throws during
\* extraction reports that file in error_files with total_errors = 1 and every
\* other supported file as processed or skipped.
C3_OneErrorReported ==
    [][ \A p \in DOMAIN rag :
          ( /\ last'.op = "ingest_directory" /\ last'.project = p
            /\ Cardinality(Throwing(p)) = 1 )
          => LET v   == last'.value
                 bad == CHOOSE f \in Throwing(p) : TRUE
                 in(list, f) == \E i \in 1..Len(list) :
                                    list[i].full_path = FilePath(p, f)
             IN  /\ v.total_errors = 1
                 /\ Len(v.error_files) = 1
                 /\ in(v.error_files, bad)
                 /\ \A f \in DOMAIN fs :
                        (f # bad /\ splitext_lower(f.name) \in SupportedExts)
                        => (in(v.processed_files, f) \/ in(v.skipped_files, f))
       ]_vars

\* the extraction of a supported file yields empty or whitespace-only text: the
\* file's text is blank, or the parser failed and the extractor returned ""
ExtractsBlank(f) ==
    /\ splitext_lower(f.name) \in SupportedExts
    /\ \/ fs[f].body.kind = "text" /\ TextBlank(fs[f].body.text)
       \/ fs[f].body.kind = "corrupt" /\ splitext_lower(f.name) # EXT_TXT

\* C14: ingest_document on a supported file whose extraction yields empty or
\* whitespace-only text ends as a failure: it returns False, writes no chunk to
\* the Vector Index and does not commit the modification time.
C14_BlankExtractionFails ==
    [][ \A p \in DOMAIN rag, f \in DOMAIN fs :
          ( /\ last'.op = "ingest_document" /\ last'.project = p
            /\ last'.file = f /\ ExtractsBlank(f) )
          => ( /\ ~last'.ret
               /\ rag'[p].collection = rag[p].collection
               /\ rag'[p].ingestion_metadata = rag[p].ingestion_metadata )
       ]_vars

\* C15: ingest_document commits the modification time and adds 1 to
\* documents_processed and the number of chunks to chunks_stored only after every
\* chunk insertion of the file has succeeded; when an extraction or insertion
\* step raises, the Ingestion Record and the statistics are left unchanged.
C15_CommitAfterAllInsertions ==
    [][ \A p \in DOMAIN rag, f \in DOMAIN fs :
          ( /\ last'.op = "ingest_document" /\ last'.project = p
            /\ last'.file = f )
          => ( /\ ( \/ rag'[p].ingestion_metadata # rag[p].ingestion_metadata
                    \/ rag'[p].stats # rag[p].stats )
                     => ( /\ last'.ret
                          /\ IndexedCount(rag'[p], f) > 0
                          /\ {ChunkId(f.name, i) :
                                 i \in 0..(IndexedCount(rag'[p], f) - 1)}
                               \subseteq FileChunkIds(rag'[p], FilePath(p, f))
                          /\ rag'[p].ingestion_metadata[FilePath(p, f)]
                                 = fs[f].mtime
                          /\ rag'[p].stats.documents_processed
                                 = rag[p].stats.documents_processed + 1
                          /\ rag'[p].stats.chunks_stored
                                 = rag[p].stats.chunks_stored
                                   + IndexedCount(rag'[p], f) )
               /\ ( /\ ~Unmodified(p, f)
                    /\ splitext_lower(f.name) \in SupportedExts
                    /\ (fs[f].body.kind = "corrupt" \/ last'.log = "error") )
                     => ( /\ rag'[p].ingestion_metadata = rag[p].ingestion_metadata
                          /\ rag'[p].stats = rag[p].stats ) )
       ]_vars

(***************************************************************************)
(* SpecAsk: one project with two files; ingestion, ask, and time.          *)
(***************************************************************************)
InitAsk ==
    /\ fs = (F_A1 :> [mtime |-> 1, body |-> B_SMALL])
            @@ (F_B1 :> [mtime |-> 1, body |-> B_SMALL])
    /\ rag = (P_A :> NewProjectRAG(P_A))
    /\ now = 1
    /\ last = [op |-> "init"]
    /\ pin = <<>>
    /\ pout = <<>>

NextAsk == Ask \/ Tick \/ IngestDocument

SpecAsk == InitAsk /\ [][NextAsk]_vars

\* C4: two consecutive ask(query) calls with no ingestion in between return
\* identical results, and the second issues no Vector Index search and no
\* language-model call, whatever the index holds (an empty index included).
\* Stated for a first call whose search and language-model call succeeded.
C4_SecondAskFromCache ==
    [][ ( /\ last.op = "ask" /\ last'.op = "ask"
          /\ last'.project = last.project /\ last'.query = last.query
          /\ last.services_ok /\ ~last.raised )
        => ( /\ ~last'.raised
             /\ last'.value = last.value
             /\ last'.searches = 0
             /\ last'.llm_calls = 0 ) ]_vars

\* C10: ask never raises.
C10_AskNeverRaises == last.op = "ask" => ~last.raised

\* C11: a cache is written only after its computation succeeded.  After an ask
\* whose language-model call failed the Response Cache holds no entry for the
\* query, and an ask of the same query that follows and gets as far as answer
\* generation calls the language model again; an ask whose Vector Index search
\* failed leaves the Query Cache as it was.
C11_NoCachePoisoning ==
    [][ last'.op = "ask"
        => ( /\ last'.llm_failed
                   => md5(last'.query)
                          \notin DOMAIN rag'[last'.project].response_cache
             /\ last'.search_failed
                   => rag'[last'.project].cache = rag[last'.project].cache
             /\ ( /\ last.op = "ask" /\ last.llm_failed
                  /\ last'.project = last.project /\ last'.query = last.query
                  /\ ~last'.raised )
                   => last'.llm_calls = 1 ) ]_vars

\* an ask on an ingested project whose search worked and whose language-model
\* call failed
C11_Witness ==
    /\ last.op = "ask"
    /\ last.llm_failed
    /\ ~last.search_failed
    /\ rag[last.project].collection # NoFn
    /\ md5(last.query) \in DOMAIN rag[last.project].cache
    /\ md5(last.query) \notin DOMAIN rag[last.project].response_cache

\* C19: every result of ask tells the three outcomes apart: it has a non-empty
\* error field if and only if a service call made for it (the Vector Index search
\* or the language-model call) failed.
C19_OutcomesDistinguishable ==
    (last.op = "ask" /\ ~last.raised)
    => ( ("error" \in DOMAIN last.value /\ last.value.error # <<>>)
         <=> (last.search_failed \/ last.llm_failed) )

\* PersistentCache(..., ttl=3600): the time-to-live the constructor is given
CACHE_TTL == 3600

TickSeconds == 7200  \* one tick of the clock, in seconds

\* C20: an entry of the Response Cache that was written more than one hour
\* earlier is never returned by ask: the lookup is a miss and the language model
\* is called again.
C20_EntriesExpire ==
    [][ ( /\ last'.op = "ask" /\ ~last'.raised
          /\ md5(last'.query) \in DOMAIN rag[last'.project].response_cache
          /\ (now - rag[last'.project].response_cache[md5(last'.query)].timestamp)
                 * TickSeconds > CACHE_TTL )
        => last'.llm_calls = 1 ]_vars

(***************************************************************************)
(* SpecChunk: preprocess_text applied to texts drawn at Init.  A text is a *)
(* stretch of letters, a stretch of blanks and a closing stretch of        *)
(* letters, each a multiple of 100 characters long.                        *)
(***************************************************************************)
MaxTextLen == 30  \* texts are up to 100 * MaxTextLen characters long

ChunkTexts ==
    { TextCat(TextCat(Run("x", 100 * a), Run(" ", 100 * b)), Run("y", 100 * c)) :
        a \in 0..MaxTextLen, b \in 0..MaxTextLen, c \in 0..1 }

InitChunk ==
    /\ pin \in {t \in ChunkTexts : TextLen(t) <= 100 * MaxTextLen}
    /\ pout = <<>>
    /\ fs = NoFn
    /\ rag = NoFn
    /\ now = 1
    /\ last = [op |-> "init"]

PreprocessText ==
    /\ pout' = preprocess_text(pin)
    /\ last' = [op |-> "preprocess_text"]
    /\ UNCHANGED <<fs, rag, now, pin>>

NextChunk == PreprocessText

SpecChunk == InitChunk /\ [][NextChunk]_vars

\* C8: preprocess_text (size 1000, overlap 200) applied to a text of length 2500
\* returns exactly the windows that start at offsets 0, 800 and 1600, three
\* chunks, each at most 1000 long.  Stated for texts none of whose three windows
\* is blank, so that no window is dropped.
C8_ThreeWindows ==
    LET w0 == TextSlice(pin, 0, 1000)
        w1 == TextSlice(pin, 800, 1800)
        w2 == TextSlice(pin, 1600, 2600)
    IN  ( /\ last.op = "preprocess_text"
          /\ TextLen(pin) = 2500
          /\ ~TextBlank(w0) /\ ~TextBlank(w1) /\ ~TextBlank(w2) )
        => ( /\ pout = <<w0, w1, w2>>
             /\ \A i \in 1..Len(pout) : TextLen(pout[i]) <= 1000 )

\* C23: preprocess_text applied to a non-blank text shorter than one window
\* (length below 1000) returns at most one chunk.
C23_ShortTextOneChunk ==
    ( /\ last.op = "preprocess_text"
      /\ ~TextBlank(pin)
      /\ TextLen(pin) < CHUNK_SIZE )
    => Len(pout) <= 1

(***************************************************************************)
(* SpecAssess: one project, its index empty or holding one document, and   *)
(* the two checks over criteria mappings of up to MaxCriteria entries.     *)
(* The clock advances with every check.                                    *)
(***************************************************************************)
MaxCriteria == 2  \* a criteria mapping has up to MaxCriteria entries

\* the criteria a mapping draws from; the first and the third ask the same
\* question under two names
CriteriaPool ==
    << [name |-> <<"n", "1">>, question |-> Q_ASC],
       [name |-> <<"n", "2">>, question |-> Q_DESC],
       [name |-> <<"n", "3">>, question |-> Q_ASC] >>

\* the criteria mappings: the names are the keys, so no name comes twice
CriteriaMappings ==
    UNION { { [i \in 1..k |-> CriteriaPool[ix[i]]] :
                ix \in {jx \in [1..k -> 1..Len(CriteriaPool)] :
                           \A a, b \in 1..k : a # b => jx[a] # jx[b]} } :
            k \in 0..MaxCriteria }

A_YES_LOWER == <<" ", "y", "e", "s">>

A_YESTERDAY == <<"Y", "e", "s", "t", "e", "r", "d", "a", "y">>

\* what the language model does during one ask of a check
CheckLlmOutcomes ==
    {LLM_FAIL}
    \cup {[ok |-> TRUE, content |-> a] : a \in {A_YES_LOWER, A_NO, A_YESTERDAY}}

\* what the services do during the asks of one check: the Vector Index behaves
\* the same way throughout, the language model answers each ask on its own
CheckEnvs ==
    { [k \in 1..(2 * MaxCriteria) |-> [search |-> s, llm |-> ls[k]]] :
        s \in SearchOutcomes, ls \in [1..(2 * MaxCriteria) -> CheckLlmOutcomes] }

\* the project as the checks may find it: just constructed; after the ingestion
\* of its document; after that and an earlier check whose question was answered
\* "Yes, ok"
AssessStarts ==
    LET fresh    == NewProjectRAG(P_A)
        body     == [mtime |-> 1, body |-> B_SMALL]
        ingested == ingest_document(fresh, F_A1, body, 1, 0).self
        asked    == ask(ingested, eligibility_question(Q_ASC),
                        [search |-> "ok", llm |-> [ok |-> TRUE, content |-> A_YES]],
                        1).self
    IN  {fresh, ingested, asked}

InitAssess ==
    /\ fs = (F_A1 :> [mtime |-> 1, body |-> B_SMALL])
    /\ \E r \in AssessStarts : rag = (P_A :> r)
    /\ now = 1
    /\ last = [op |-> "init"]
    /\ pin = <<>>
    /\ pout = <<>>

CheckEligibility ==
    \E p \in DOMAIN rag, criteria \in CriteriaMappings, envs \in CheckEnvs :
        LET r == check_eligibility(rag[p], criteria, envs, now)
        IN  /\ now < MaxNow
            /\ now' = now + 1
            /\ rag' = [rag EXCEPT ![p] = r.self]
            /\ last' = [op |-> "check_eligibility", project |-> p,
                        criteria |-> criteria, raised |-> r.raised,
                        value |-> r.value, asked |-> r.asked,
                        llm_failing |-> {k \in 1..Len(criteria) : ~envs[k].llm.ok}]
            /\ UNCHANGED <<fs, pin, pout>>

CheckSelectedProjects ==
    \E p \in DOMAIN rag, criteria \in CriteriaMappings, envs \in CheckEnvs :
        LET r == check_selected_projects(rag[p], criteria, envs, now)
        IN  /\ now < MaxNow
            /\ now' = now + 1
            /\ rag' = [rag EXCEPT ![p] = r.self]
            /\ last' = [op |-> "check_selected_projects", project |-> p,
                        criteria |-> criteria, raised |-> r.raised,
                        value |-> r.value, asked |-> r.asked]
            /\ UNCHANGED <<fs, pin, pout>>

NextAssess == CheckEligibility \/ CheckSelectedProjects

SpecAssess == InitAssess /\ [][NextAssess]_vars

\* all(c["meets_criterion"] for c in criteria)
AllMeet(criteria) == \A i \in 1..Len(criteria) : criteria[i].meets_criterion

\* C5: whatever the criteria mapping (the empty one included) and the answers,
\* the result of check_eligibility has eligible equal to the conjunction of
\* meets_criterion over its criteria list, and the result of
\* check_selected_projects has selected equal to the same conjunction.
C5_AndOfCriteria ==
    /\ (last.op = "check_eligibility" /\ ~last.raised)
           => ( /\ last.value.eligible = AllMeet(last.value.criteria)
                /\ Len(last.value.criteria) = Len(last.criteria) )
    /\ (last.op = "check_selected_projects" /\ ~last.raised)
           => ( /\ last.value.selected = AllMeet(last.value.criteria)
                /\ Len(last.value.criteria) = Len(last.criteria) )

\* a check of two criteria of which the first is met and the second is not, and
\* a selection check of two criteria that are both met
C5_Witness ==
    \/ /\ last.op = "check_eligibility" /\ ~last.raised
       /\ Len(last.value.criteria) = 2
       /\ last.value.criteria[1].meets_criterion
       /\ ~last.value.criteria[2].meets_criterion
       /\ ~last.value.eligible
    \/ /\ last.op = "check_selected_projects" /\ ~last.raised
       /\ Len(last.value.criteria) = 2
       /\ last.value.selected

RECURSIVE FirstToken(_)
\* the first token of an answer: its leading run of letters and digits
FirstToken(answer) ==
    IF answer = <<>> \/ answer[1] \notin AlNum THEN <<>>
    ELSE <<answer[1]>> \o FirstToken(Tail(answer))

\* C21: both checks classify a criterion as met if and only if the first token
\* of the trimmed answer equals "yes" ignoring case; an answer whose first token
\* only begins with those letters, such as "Yesterday", is not met.
C21_FirstTokenIsYes ==
    (last.op \in {"check_eligibility", "check_selected_projects"} /\ ~last.raised)
    => \A i \in 1..Len(last.value.criteria) :
           last.value.criteria[i].meets_criterion
           <=> Lower(FirstToken(last.value.criteria[i].answer)) = <<"y", "e", "s">>

\* the names of the criteria of the last check that were recorded as not met,
\* in the order of the mapping
FailingNames ==
    LET n   == Len(last.criteria)
        idx == SelectSeq([i \in 1..n |-> i],
                         LAMBDA i : ~last.value.criteria[i].meets_criterion)
    IN  [k \in 1..Len(idx) |-> last.criteria[idx[k]].name]

\* C22: check_eligibility evaluates every criterion of the mapping exactly once,
\* in insertion order, without stopping at a failing criterion: the returned
\* criteria list has one entry per criterion in that order, and the summary of
\* a project that is not eligible names exactly the failing criteria in that
\* order.
C22_EveryCriterionInOrder ==
    (last.op = "check_eligibility" /\ ~last.raised)
    => /\ Len(last.value.criteria) = Len(last.criteria)
       /\ last.asked = Len(last.criteria)
       /\ \A i \in 1..Len(last.value.criteria) :
              /\ last.value.criteria[i].name = last.criteria[i].name
              /\ last.value.criteria[i].question = last.criteria[i].question
       /\ ~last.value.eligible
              => last.value.summary
                   = <<"Project '">> \o last.project
                     \o <<"' does not meet the following criteria: ">>
                     \o join_names(FailingNames) \o <<".">>

\* a check of two criteria of which the first is not met: the second is
\* evaluated all the same, and is met
C22_Witness ==
    /\ last.op = "check_eligibility" /\ ~last.raised
    /\ Len(last.criteria) = 2
    /\ Len(last.value.criteria) = 2
    /\ ~last.value.criteria[1].meets_criterion
    /\ last.value.criteria[2].meets_criterion
    /\ ~last.value.eligible

\* the k-th ask of the last check called the language model: its question had
\* no Response Cache entry before the check and is no earlier criterion's
LlmCalledAt(k) ==
    /\ md5(eligibility_question(last'.criteria[k].question))
           \notin DOMAIN rag[last'.project].response_cache
    /\ \A j \in 1..(k - 1) :
           last'.criteria[j].question # last'.criteria[k].question

\* C27: when the ask issued for a criterion fails (the language-model call
\* raises), check_eligibility records that criterion with meets_criterion false
\* and the error text as its answer, returns eligible false, and the result
\* carries no error field.
C27_FailureReportedAsNo ==
    [][ (last'.op = "check_eligibility" /\ ~last'.raised)
        => \A k \in last'.llm_failing :
               LlmCalledAt(k)
               => ( /\ ~last'.value.criteria[k].meets_criterion
                    /\ last'.value.criteria[k].answer = ERR_GENERATING
                    /\ ~last'.value.eligible
                    /\ "error" \notin DOMAIN last'.value ) ]_vars

\* a check of two criteria whose first is met and whose second ask failed
C27_Witness ==
    /\ last.op = "check_eligibility" /\ ~last.raised
    /\ last.llm_failing = {2}
    /\ Len(last.value.criteria) = 2
    /\ last.value.criteria[1].meets_criterion
    /\ last.value.criteria[2].answer = ERR_GENERATING
    /\ ~last.value.eligible

(***************************************************************************)
(* SpecRecommend: generate_recommendation applied to what the language     *)
(* model may return, drawn at Init: a response made of up to MaxPieces     *)
(* pieces, or a failed call.                                               *)
(***************************************************************************)
MaxPieces == 4  \* a response is made of up to MaxPieces pieces

FUND == <<"F", "u", "n", "d">>
DO_NOT_FUND == <<"D", "o", " ", "N", "o", "t", " ", "F", "u", "n", "d">>
PARTIALLY_FUND == <<"P", "a", "r", "t", "i", "a", "l", "l", "y", " ", "F", "u", "n", "d">>

Pieces ==
    { DECISION_PREFIX, <<" ">>, <<"\n">>, FUND, DO_NOT_FUND, PARTIALLY_FUND,
      <<"M", "a", "y", "b", "e">>, <<"R", "e", "s", "t">> }

RECURSIVE Concat(_)
\* the pieces in a row
Concat(ps) == IF ps = <<>> THEN <<>> ELSE Head(ps) \o Concat(Tail(ps))

Responses == UNION { {Concat(ps) : ps \in [1..k -> Pieces]} : k \in 0..MaxPieces }

RecommendOutcomes == {LLM_FAIL} \cup {[ok |-> TRUE, content |-> c] : c \in Responses}

InitRecommend ==
    /\ pin \in RecommendOutcomes
    /\ pout = <<>>
    /\ fs = NoFn
    /\ rag = (P_A :> NewProjectRAG(P_A))
    /\ now = 1
    /\ last = [op |-> "init"]

GenerateRecommendation ==
    \E p \in DOMAIN rag :
        /\ pout' = generate_recommendation(rag[p],
                       check_eligibility(rag[p], <<>>, <<>>, now).value,
                       [project_name |-> p, timestamp |-> now, sections |-> <<>>],
                       pin, now)
        /\ last' = [op |-> "generate_recommendation", project |-> p]
        /\ UNCHANGED <<fs, rag, now, pin>>

NextRecommend == GenerateRecommendation

SpecRecommend == InitRecommend /\ [][NextRecommend]_vars

\* C7: when the first line of the response (trimmed) starts with "DECISION:",
\* funding_decision is that line with the prefix stripped, trimmed, and
\* recommendation is the remaining lines, trimmed; otherwise funding_decision is
\* "Pending" and recommendation is the entire response text.
C7_DecisionParsing ==
    (last.op = "generate_recommendation" /\ pin.ok)
    => LET lines == SplitLines(pin.content)
           line1 == Strip(lines[1])
       IN  IF StartsWith(line1, DECISION_PREFIX)
           THEN /\ pout.funding_decision
                       = Strip(Slice(line1, Len(DECISION_PREFIX), Len(line1)))
                /\ pout.recommendation = Strip(JoinLines(Tail(lines)))
           ELSE /\ pout.funding_decision = PENDING
                /\ pout.recommendation = pin.content

\* C9: every result of generate_recommendation carries a funding_decision that
\* is one of Fund, Do Not Fund, Partially Fund and Pending, whatever the language
\* model returns and also when its call fails.
C9_ClosedDecisionSet ==
    last.op = "generate_recommendation"
    => ( /\ "funding_decision" \in DOMAIN pout
         /\ pout.funding_decision \in {FUND, DO_NOT_FUND, PARTIALLY_FUND, PENDING} )

(***************************************************************************)
(* SpecSystem: a system of two projects, each with its index empty or      *)
(* holding one document, and chat_with_projects over lists of up to        *)
(* MaxNames names.  The clock advances with every chat.                    *)
(***************************************************************************)
MaxNames == 2  \* project_names has up to MaxNames entries

P_C == <<"C">>  \* a name the system holds no project for

NameLists == UNION { [1..k -> {P_A, P_B, P_C}] : k \in 0..MaxNames }

ChatLlmOutcomes ==
    {LLM_FAIL} \cup {[ok |-> TRUE, content |-> a] : a \in {A_YES, <<>>}}

ChatEnvs ==
    [1..MaxNames -> {[search |-> s, llm |-> l] :
                        s \in SearchOutcomes,
                        l \in {LLM_FAIL, [ok |-> TRUE, content |-> A_YES]}}]

\* a project just constructed, or after the ingestion of its document
ProjectStarts(project_name, file) ==
    { NewProjectRAG(project_name),
      ingest_document(NewProjectRAG(project_name), file,
                      [mtime |-> 1, body |-> B_SMALL], 1, 0).self }

InitSystem ==
    /\ fs = (F_A1 :> [mtime |-> 1, body |-> B_SMALL])
            @@ (F_B1 :> [mtime |-> 1, body |-> B_SMALL])
    /\ \E a \in ProjectStarts(P_A, F_A1), b \in ProjectStarts(P_B, F_B1) :
          rag = (P_A :> a) @@ (P_B :> b)
    /\ now = 1
    /\ last = [op |-> "init"]
    /\ pin = <<>>
    /\ pout = <<>>

ChatWithProjects ==
    \E query \in Queries, project_names \in NameLists, envs \in ChatEnvs,
       llm \in ChatLlmOutcomes :
        LET r == chat_with_projects(rag, query, project_names, envs, llm, now)
        IN  /\ now < MaxNow
            /\ now' = now + 1
            /\ rag' = r.projects
            /\ last' = [op |-> "chat_with_projects", query |-> query,
                        project_names |-> project_names, raised |-> r.raised,
                        value |-> r.value, asks |-> r.asks,
                        llm_calls |-> r.llm_calls]
            /\ UNCHANGED <<fs, pin, pout>>

NextSystem == ChatWithProjects

SpecSystem == InitSystem /\ [][NextSystem]_vars

\* C6: chat_with_projects given an empty list or a single name fails with the
\* insufficient-projects error before any per-project ask or language-model call
\* is issued; given two or more names it returns a responses mapping whose key
\* set is exactly the set of the given names, and a non-empty comparison string.
C6_MinimumTwoProjects ==
    last.op = "chat_with_projects"
    => IF Len(last.project_names) < 2
       THEN /\ last.raised
            /\ last.value.exception = "ValueError"
            /\ last.asks = 0
            /\ last.llm_calls = 0
       ELSE /\ ~last.raised
            /\ DOMAIN last.value.responses
                   = {last.project_names[i] : i \in 1..Len(last.project_names)}
            /\ last.value.comparison # <<>>

\* a chat over two different projects that returned both answers
C6_Witness ==
    /\ last.op = "chat_with_projects"
    /\ ~last.raised
    /\ last.project_names = <<P_A, P_B>>
    /\ DOMAIN last.value.responses = {P_A, P_B}
    /\ last.value.comparison # <<>>

(***************************************************************************)
(* SpecIsolation: three projects over the same relative file, two of whose *)
(* names differ in one character; ingestion and ask on each.               *)
(***************************************************************************)
P_SPACE == <<"a", " ", "b">>
P_UNDER == <<"a", "_", "b">>

InitIsolation ==
    /\ fs = (F_A1 :> [mtime |-> 1, body |-> B_SMALL])
    /\ rag = [p \in {P_SPACE, P_UNDER, P_B} |-> NewProjectRAG(p)]
    /\ now = 1
    /\ last = [op |-> "init"]
    /\ pin = <<>>
    /\ pout = <<>>

MaxOps == 3  \* the operations of one behaviour; the clock advances with each

\* IngestProject emptying the two caches of the project as well
IngestProjectClearing ==
    \E p \in DOMAIN rag, f \in DOMAIN fs, addFail \in 0..MaxAddFail :
        LET r == ingest_document(rag[p], f, fs[f], now, addFail)
        IN  /\ now <= MaxOps
            /\ now' = now + 1
            /\ rag' = publish([rag EXCEPT ![p] = [r.self EXCEPT
                                   !.cache = NoFn, !.response_cache = NoFn]], p)
            /\ last' = [op |-> "ingest_document", project |-> p, file |-> f,
                        ret |-> r.ret, log |-> r.log, addFail |-> addFail]
            /\ UNCHANGED <<fs, pin, pout>>

\* ingest_document on one of the projects, the clock advancing
IngestProject ==
    \E p \in DOMAIN rag, f \in DOMAIN fs, addFail \in 0..MaxAddFail :
        LET r == ingest_document(rag[p], f, fs[f], now, addFail)
        IN  /\ now <= MaxOps
            /\ now' = now + 1
            /\ rag' = publish([rag EXCEPT ![p] = r.self], p)
            /\ last' = [op |-> "ingest_document", project |-> p, file |-> f,
                        ret |-> r.ret, log |-> r.log, addFail |-> addFail]
            /\ UNCHANGED <<fs, pin, pout>>

\* ask on one of the projects, the clock advancing
AskProject ==
    \E p \in DOMAIN rag, q \in Queries, s \in SearchOutcomes, l \in LlmOutcomes :
        LET r == ask(rag[p], q, [search |-> s, llm |-> l], now)
        IN  /\ now <= MaxOps
            /\ now' = now + 1
            /\ rag' = publish([rag EXCEPT ![p] = r.self], p)
            /\ last' = [op |-> "ask", project |-> p, query |-> q,
                        raised |-> r.raised, value |-> r.value,
                        searches |-> r.searches, llm_calls |-> r.llm_calls]
            /\ UNCHANGED <<fs, pin, pout>>

NextIsolation == IngestProject \/ AskProject

SpecIsolation == InitIsolation /\ [][NextIsolation]_vars

\* C12: two ProjectRAG units of distinct project names have different Vector
\* Index namespaces and Ingestion Record files, and no ingest or ask on one
\* project changes the chunks, cache entries or ingestion records of another.
C12_ProjectIsolation ==
    [][ \A p, q \in DOMAIN rag :
          (p # q /\ last'.op \in {"ingest_document", "ask"} /\ last'.project = p)
          => ( /\ sanitize_name(p) # sanitize_name(q)
               /\ rag'[q] = rag[q] ) ]_vars

(***************************************************************************)
(* SpecFiles: one project holding d/a.txt, s/a.txt and d/b.pdf; ingestion  *)
(* of single files and ask, up to MaxOps operations.                       *)
(***************************************************************************)
InitFiles ==
    /\ fs = (F_A1 :> [mtime |-> 1, body |-> B_SMALL])
            @@ (F_A2 :> [mtime |-> 1, body |-> B_SMALL])
            @@ (F_B1 :> [mtime |-> 1, body |-> B_SMALL])
    /\ rag = (P_A :> NewProjectRAG(P_A))
    /\ now = 1
    /\ last = [op |-> "init"]
    /\ pin = <<>>
    /\ pout = <<>>

NextFiles == IngestProject \/ AskProject

SpecFiles == InitFiles /\ [][NextFiles]_vars

\* the chunks the index holds for a file, by id
FileChunks(self, file_path) ==
    [id \in FileChunkIds(self, file_path) |-> self.collection[id]]

\* C13: within one project the chunk ids of two distinct files never coincide,
\* so ingesting one file never deletes or replaces a chunk of another file: the
\* chunks the index holds for any other file are the same before and after.
C13_DistinctFilesDistinctIds ==
    [][ \A p \in DOMAIN rag, f \in DOMAIN fs, g \in DOMAIN fs :
          ( /\ last'.op = "ingest_document" /\ last'.project = p
            /\ last'.file = f /\ g # f )
          => FileChunks(rag'[p], FilePath(p, g))
                 = FileChunks(rag[p], FilePath(p, g)) ]_vars

(***************************************************************************)
(* SpecInit: a system just constructed and initialize_projects over the    *)
(* listings of a projects directory with three folders and one file.       *)
(***************************************************************************)
DirEntries ==
    { [name |-> P_A, isdir |-> TRUE], [name |-> P_B, isdir |-> TRUE],
      [name |-> P_C, isdir |-> TRUE],
      [name |-> <<"r", ".", "m", "d">>, isdir |-> FALSE] }

\* os.listdir returns the entries in arbitrary order
Listings ==
    { l \in [1..Cardinality(DirEntries) -> DirEntries] :
        \A i, j \in 1..Cardinality(DirEntries) : i # j => l[i] # l[j] }

InitInit ==
    /\ fs = NoFn
    /\ rag = NoFn
    /\ now = 1
    /\ last = [op |-> "init"]
    /\ pin = <<>>
    /\ pout = <<>>

InitializeProjects ==
    \E exists \in BOOLEAN, items \in Listings, failing \in SUBSET {P_A, P_B, P_C} :
        LET r == initialize_projects(rag, exists, items, failing)
        IN  /\ last.op = "init"
            /\ rag' = r.projects
            /\ last' = [op |-> "initialize_projects", exists |-> exists,
                        items |-> items, failing |-> failing, raised |-> r.raised]
            /\ UNCHANGED <<fs, now, pin, pout>>

NextInit == InitializeProjects

SpecInit == InitInit /\ [][NextInit]_vars

\* C16: initialize_projects constructs one ProjectRAG per project folder; when
\* the construction of one project fails it goes on with the remaining ones and
\* returns without raising, and every project whose construction succeeds is
\* registered in the projects mapping.
C16_InitializeSkipsFailures ==
    (last.op = "initialize_projects" /\ last.exists)
    => ( /\ ~last.raised
         /\ DOMAIN rag = {last.items[i].name : i \in {j \in 1..Len(last.items) :
                                 last.items[j].isdir}} \ last.failing )

(***************************************************************************)
(* SpecCompare: a system of up to three projects, an eligibility pass over *)
(* the selected projects, and the comparative analysis, called directly    *)
(* (as main does) or through the sidebar.  Here pin is the session's       *)
(* selected_projects and pout its eligibility_results.                     *)
(***************************************************************************)
\* the order of the projects mapping
SystemOrder == <<P_A, P_B, P_C>>

\* list(projects.keys())
keys(projects) == SelectSeq(SystemOrder, LAMBDA n : n \in DOMAIN projects)

\* the first k elements
Prefix(seq, k) == SubSeq(seq, 1, IF k < Len(seq) THEN k ELSE Len(seq))

\* the elements of a sequence
Elems(seq) == {seq[i] : i \in 1..Len(seq)}

\* what the services do during the asks of one analysis: the Vector Index
\* behaves the same way throughout, the language model answers each ask on its
\* own
CompareEnvs ==
    { [k \in 1..Len(SystemOrder) |-> [search |-> s, llm |-> ls[k]]] :
        s \in SearchOutcomes,
        ls \in [1..Len(SystemOrder) -> {LLM_FAIL, [ok |-> TRUE, content |-> A_YES]}] }

\* what the services do during an eligibility pass: every search works, the
\* language model answers yes or no for each project
PassEnvs ==
    { [k \in 1..Len(SystemOrder) |->
          <<[search |-> "ok", llm |-> [ok |-> TRUE, content |-> as[k]]]>>] :
        as \in [1..Len(SystemOrder) -> {A_YES, A_NO}] }

InitCompare ==
    /\ fs = (F_A1 :> [mtime |-> 1, body |-> B_SMALL])
    /\ \E names \in SUBSET Elems(SystemOrder), a \in ProjectStarts(P_A, F_A1) :
          rag = [n \in names |-> IF n = P_A THEN a ELSE NewProjectRAG(n)]
    /\ pin = DOMAIN rag
    /\ pout = NoFn
    /\ now = 1
    /\ last = [op |-> "init"]

EligibilityPass ==
    \E envs \in PassEnvs :
        LET r == eligibility_pass(rag, SelectSeq(SystemOrder, LAMBDA n : n \in pin),
                                  <<CriteriaPool[1]>>, envs, now, NoFn)
        IN  /\ last.op = "init"
            /\ rag' = r.projects
            /\ pout' = r.results
            /\ last' = [op |-> "eligibility_pass", raised |-> r.raised]
            /\ UNCHANGED <<fs, now, pin>>

ComparativeAnalysis ==
    \E eligible_only \in BOOLEAN, envs \in CompareEnvs,
       llm \in {LLM_FAIL, [ok |-> TRUE, content |-> A_YES]} :
        LET names == keys(rag)
            r == generate_comparative_analysis(rag, names, eligible_only, envs,
                                               llm, now)
        IN  /\ last.op \in {"init", "eligibility_pass"}
            /\ rag' = r.projects
            /\ last' = [op |-> "generate_comparative_analysis",
                        eligible_only |-> eligible_only, working |-> names,
                        asked |-> Prefix(names, r.asks), raised |-> r.raised,
                        ask_raised |-> r.ask_raised,
                        synthesis_failed |->
                            (Len(names) >= 2 /\ ~r.ask_raised /\ ~llm.ok),
                        value |-> r.value, asks |-> r.asks,
                        llm_calls |-> r.llm_calls]
            /\ UNCHANGED <<fs, now, pin, pout>>

GenerateComparative ==
    \E eligible_only \in BOOLEAN, envs \in CompareEnvs,
       llm \in {LLM_FAIL, [ok |-> TRUE, content |-> A_YES]} :
        LET names == filtered_names(keys(rag), pin, pout, eligible_only)
            r == generate_comparative(rag, keys(rag), pin, pout, eligible_only,
                                      envs, llm, now)
        IN  /\ last.op \in {"init", "eligibility_pass"}
            /\ rag' = r.projects
            /\ last' = [op |-> "generate_comparative",
                        eligible_only |-> eligible_only, working |-> names,
                        asked |-> Prefix(names, r.asks), raised |-> r.raised,
                        ask_raised |-> r.ask_raised,
                        synthesis_failed |->
                            (Len(names) >= 2 /\ ~r.ask_raised /\ ~llm.ok),
                        value |-> r.value, asks |-> r.asks,
                        llm_calls |-> r.llm_calls]
            /\ UNCHANGED <<fs, now, pin, pout>>

NextCompare == EligibilityPass \/ ComparativeAnalysis \/ GenerateComparative

SpecCompare == InitCompare /\ [][NextCompare]_vars

\* the last operation was a comparative analysis
Compared == last.op \in {"generate_comparative_analysis", "generate_comparative"}

Eligible == {n \in DOMAIN pout : pout[n].eligible}

\* C18: after an eligibility pass, the comparative analysis with
\* eligible_only = True asks the summarization question of no project without an
\* eligible result, lists no such project in projects_compared, and applies the
\* at-least-2 check to the filtered set.
C18_EligibleOnlyFilters ==
    (Compared /\ last.eligible_only /\ DOMAIN pout # {})
    => ( /\ Elems(last.asked) \subseteq Eligible
         /\ "projects_compared" \in DOMAIN last.value
               => Elems(last.value.projects_compared) \subseteq Eligible
         /\ Cardinality(Eligible) < 2
               => ("error" \in DOMAIN last.value /\ last.asks = 0) )

(***************************************************************************)
(* SpecSearch: two projects whose indexes are filled and stay as they are;  *)
(* search_projects and ask, up to MaxOps operations.  pin is not used.      *)
(***************************************************************************)
InitSearch ==
    /\ fs = (F_A1 :> [mtime |-> 1, body |-> B_BIG])
    /\ rag = (P_A :> ingest_document(NewProjectRAG(P_A), F_A1,
                                     [mtime |-> 1, body |-> B_BIG], 1, 0).self)
             @@ (P_B :> ingest_document(NewProjectRAG(P_B), F_A1,
                                        [mtime |-> 1, body |-> B_SMALL], 1, 0).self)
    /\ now = 1
    /\ last = [op |-> "init"]
    /\ pin = <<>>
    /\ pout = <<>>

SearchProjects ==
    \E q \in Queries, search \in [DOMAIN rag -> {"ok", "fail"}] :
        LET r == search_projects(rag, keys(rag), q, search)
        IN  /\ now <= MaxOps
            /\ now' = now + 1
            /\ rag' = r.projects
            /\ last' = [op |-> "search_projects", query |-> q,
                        value |-> r.results]
            /\ UNCHANGED <<fs, pin, pout>>

\* ask on one of the projects; passed is the chunk list that ask hands to
\* generate_response
AskSearched ==
    \E p \in DOMAIN rag, q \in Queries, s \in {"ok", "fail"}, l \in LlmOutcomes :
        LET r == ask(rag[p], q, [search |-> s, llm |-> l], now)
            retrieved == query_collection(rag[p], q, 5, s)
        IN  /\ now <= MaxOps
            /\ now' = now + 1
            /\ rag' = [rag EXCEPT ![p] = r.self]
            /\ last' = [op |-> "ask", project |-> p, query |-> q,
                        raised |-> r.raised, value |-> r.value,
                        passed |-> retrieved.value,
                        search_failed |-> (retrieved.searches = 1 /\ s = "fail")]
            /\ UNCHANGED <<fs, pin, pout>>

NextSearch == SearchProjects \/ AskSearched

SpecSearch == InitSearch /\ [][NextSearch]_vars

\* the documents of the five chunks of a project nearest to a query
TopFive(self, query) ==
    LET ids == nearest(self.collection, DOMAIN self.collection, query, 5)
    IN  [i \in 1..Len(ids) |-> self.collection[ids[i]].document]

\* C24: the chunk list that ask(query) passes to answer generation is the result
\* of a top-5 search of the project's index for that query, freshly computed or
\* cached, also when search_projects was called earlier with the same query.
\* The indexes do not change here, so every top-5 search of a project for a
\* query gives the same list; an ask whose own search failed is left aside.
C24_AskUsesTopFive ==
    (last.op = "ask" /\ ~last.search_failed)
    => [i \in 1..Len(last.passed) |-> last.passed[i].content]
           = TopFive(rag[last.project], last.query)

(***************************************************************************)
(* SpecName: sanitize_name applied to names drawn at Init: every string of  *)
(* up to MaxNameLen characters over a small alphabet, and three names      *)
(* longer than 63 characters.  pin is the name, pout the result.            *)
(***************************************************************************)
MaxNameLen == 4  \* the short names are up to MaxNameLen characters long

NameAlphabet == {"a", "1", "_", "-", " "}

LongNames ==
    { [i \in 1..70 |-> "a"],
      [i \in 1..70 |-> IF i <= 2 THEN "a" ELSE "-"],
      [i \in 1..70 |-> IF i = 63 THEN " " ELSE "b"] }

Names ==
    UNION { [1..n -> NameAlphabet] : n \in 0..MaxNameLen } \cup LongNames

InitName ==
    /\ pin \in Names
    /\ pout = <<>>
    /\ fs = NoFn
    /\ rag = NoFn
    /\ now = 1
    /\ last = [op |-> "init"]

SanitizeName ==
    /\ last.op = "init"
    /\ pout' = sanitize_name(pin)
    /\ last' = [op |-> "sanitize_name"]
    /\ UNCHANGED <<fs, rag, now, pin>>

NextName == SanitizeName

SpecName == InitName /\ [][NextName]_vars

\* C25: for every input string, the empty one and those made only of invalid
\* characters included, sanitize_name returns a name of 3 to 63 characters that
\* contains only letters, digits, underscores and hyphens and that starts and
\* ends with a letter or digit.
C25_SanitizedNameIsValid ==
    (last.op = "sanitize_name")
    => /\ Len(pout) >= 3
       /\ Len(pout) <= 63
       /\ \A i \in 1..Len(pout) : pout[i] \in AlNum \cup {"_", "-"}
       /\ pout[1] \in AlNum
       /\ pout[Len(pout)] \in AlNum

(***************************************************************************)
(* SpecStale: one project whose file was ingested; the file is rewritten,   *)
(* the project ingests and is asked, up to MaxOps operations.               *)
(***************************************************************************)
InitStale ==
    /\ fs = (F_A1 :> [mtime |-> 1, body |-> B_SMALL])
    /\ rag = (P_A :> ingest_document(NewProjectRAG(P_A), F_A1,
                                     [mtime |-> 1, body |-> B_SMALL], 1, 0).self)
    /\ now = 1
    /\ last = [op |-> "init"]
    /\ pin = <<>>
    /\ pout = <<>>

\* IngestDirectoryProject starting from an empty Ingestion Record
IngestDirectoryProjectForgetting ==
    \E p \in DOMAIN rag, k \in 0..MaxAddFail :
        LET r == ingest_directory([rag[p] EXCEPT !.ingestion_metadata = NoFn],
                     SelectSeq(WalkOrder, LAMBDA f : f \in DOMAIN fs), fs, now,
                     [f \in DOMAIN fs |-> k])
        IN  /\ now <= MaxOps
            /\ now' = now + 1
            /\ rag' = publish([rag EXCEPT ![p] = r.self], p)
            /\ last' = [op |-> "ingest_directory", project |-> p,
                        value |-> r.value]
            /\ UNCHANGED <<fs, pin, pout>>

\* ingest_directory on one of the projects, the clock advancing
IngestDirectoryProject ==
    \E p \in DOMAIN rag, k \in 0..MaxAddFail :
        LET r == ingest_directory(rag[p],
                     SelectSeq(WalkOrder, LAMBDA f : f \in DOMAIN fs), fs, now,
                     [f \in DOMAIN fs |-> k])
        IN  /\ now <= MaxOps
            /\ now' = now + 1
            /\ rag' = publish([rag EXCEPT ![p] = r.self], p)
            /\ last' = [op |-> "ingest_directory", project |-> p,
                        value |-> r.value]
            /\ UNCHANGED <<fs, pin, pout>>

NextStale == WriteFile \/ IngestProject \/ IngestDirectoryProject \/ AskProject

SpecStale == InitStale /\ [][NextStale]_vars

\* C26: ingest_document and ingest_directory leave the Query Cache and the
\* Response Cache unchanged, so an ask whose query has a Response Cache entry
\* returns that entry without calling the language model, also when a modified
\* file was re-ingested after the entry was written.
C26_IngestionKeepsCaches ==
    [][ /\ last'.op \in {"ingest_document", "ingest_directory"}
            => \A p \in DOMAIN rag :
                   /\ rag'[p].cache = rag[p].cache
                   /\ rag'[p].response_cache = rag[p].response_cache
        /\ ( /\ last'.op = "ask"
             /\ md5(last'.query) \in DOMAIN rag[last'.project].response_cache )
            => ( /\ ~last'.raised
                 /\ last'.value = rag[last'.project].response_cache[md5(last'.query)]
                 /\ last'.llm_calls = 0 ) ]_vars

\* an ask answered from the Response Cache while the index holds a chunk that was
\* written after the answer was computed
C26_Witness ==
    /\ last.op = "ask" /\ ~last.raised
    /\ last.llm_calls = 0
    /\ "error" \notin DOMAIN last.value
    /\ \E id \in DOMAIN rag[last.project].collection :
           rag[last.project].collection[id].metadata.timestamp
               > last.value.timestamp

\* C28: if ingest_document fails after it started writing (the insertion of some
\* chunk after the first raises), the Vector Index holds for that file the same
\* chunk set as before the call.
C28_FailedIngestionLeavesChunks ==
    [][ \A p \in DOMAIN rag, f \in DOMAIN fs :
          ( /\ last'.op = "ingest_document" /\ last'.project = p /\ last'.file = f
            /\ last'.log = "error"
            /\ fs[f].body.kind # "corrupt"
            /\ last'.addFail >= 2 )
          => FileChunks(rag'[p], FilePath(p, f))
                 = FileChunks(rag[p], FilePath(p, f)) ]_vars

\* C29: within one ProjectRAG, over any sequence of ingest_document and
\* ingest_directory calls, the Ingestion Record value of a file path never
\* decreases and a path once recorded is never removed.
C29_RecordNeverDecreases ==
    [][ \A p \in DOMAIN rag :
          \A path \in DOMAIN rag[p].ingestion_metadata :
              /\ path \in DOMAIN rag'[p].ingestion_metadata
              /\ rag'[p].ingestion_metadata[path]
                     >= rag[p].ingestion_metadata[path] ]_vars

\* an ingestion that has run on a file whose modification time is older than
\* its Ingestion Record value
C29_Witness ==
    /\ last.op \in {"ingest_document", "ingest_directory"}
    /\ \E f \in DOMAIN fs :
           /\ FilePath(last.project, f)
                  \in DOMAIN rag[last.project].ingestion_metadata
           /\ fs[f].mtime
                  < rag[last.project].ingestion_metadata[FilePath(last.project, f)]

(***************************************************************************)
(* SpecProject: a system with one project of two files; the first file is   *)
(* rewritten and the project is ingested as a whole, up to MaxOps runs.  The *)
(* clock advances with every run.                                           *)
(***************************************************************************)
InitProject ==
    /\ fs = (F_A1 :> [mtime |-> 1, body |-> B_SMALL])
            @@ (F_B1 :> [mtime |-> 1, body |-> B_SMALL])
    /\ rag = (P_A :> NewProjectRAG(P_A))
    /\ now = 1
    /\ last = [op |-> "init"]
    /\ pin = <<>>
    /\ pout = <<>>

IngestWholeProject ==
    \E project_name \in {P_A, P_B}, k \in 0..MaxAddFail :
        LET r == ingest_project(rag, project_name,
                     SelectSeq(WalkOrder, LAMBDA f : f \in DOMAIN fs), fs, now,
                     [f \in DOMAIN fs |-> k])
        IN  /\ now <= MaxOps
            /\ now' = now + 1
            /\ rag' = r.projects
            /\ last' = [op |-> "ingest_project", project |-> project_name,
                        ret |-> r.ret, results |-> r.results, t |-> now]
            /\ UNCHANGED <<fs, pin, pout>>

NextProject == WriteFile \/ IngestWholeProject

SpecProject == InitProject /\ [][NextProject]_vars

\* the chunks that the last run wrote for the files it processed
WrittenInRun ==
    LET coll == rag[last.project].collection
    IN  { id \in DOMAIN coll :
            /\ coll[id].metadata.timestamp = last.t
            /\ \E i \in 1..Len(last.results.processed_files) :
                   last.results.processed_files[i].full_path
                       = coll[id].metadata.source }

====
